---- MODULE Spec2Model ----
(***************************************************************************)
(* hyperplane: reactive properties for custom elements.                    *)
(*                                                                         *)
(* The model follows hyperplane.ts: parseAttribute,                        *)
(* createPropertiesDescriptors, getPropertyChangeListener, mapProperties   *)
(* and create (the connected / disconnected handlers, subscribe,           *)
(* useTemplate, update).  The rxjs primitives the code is built from       *)
(* (BehaviorSubject, Subject, merge, distinctUntilChanged, tap, map) are   *)
(* modelled by what they do: delivery is synchronous, a Subject iterates a *)
(* copy of its observer list, a BehaviorSubject replays its current value  *)
(* to a new subscriber, and every subscription of a cold pipeline has its  *)
(* own operator state.                                                     *)
(*                                                                         *)
(* One action is one synchronous turn of the embedder: a property          *)
(* assignment, a lifecycle event, a call of the returned handle.  `log`    *)
(* holds what was observed during the last turn, `turn` what that turn was.*)
(***************************************************************************)
EXTENDS Integers, Sequences, FiniteSets, TLC

VARIABLES
  node,                  \* the host element: identity, own enumerable property names in
                         \* enumeration order, own properties outside the schema, shadowRoot
  properties,            \* the schema passed to create(): key -> PropertyConfig
  setters,               \* the table createPropertiesDescriptors returns: key -> [trigger$, config]
  hostPre,               \* what `key in node` / node[key] gave before install
  pc,                    \* "new" before install, "ready" after, "failed" if install threw
  cells,                 \* key -> current value of the property's BehaviorSubject
  attrs,                 \* the host's attributes: name -> text or Absent
  registeredObservables, \* create(): the pipelines registered with subscribe()/useTemplate()
  subscriptions,         \* create(): the subscriptions recorded by the connected handler
  observers,             \* source -> the observer list of that Subject, in subscription order
  subs,                  \* subscription id -> the subscription's kind and operator state
  writer,                \* the external subscriber that assigns a property from its handler, or NoWriter
  log,                   \* what the last turn delivered, in delivery order
  turn,                  \* the last turn: the operation, its arguments, the state it started from
  connected,             \* history: "never" until the first connected event, then "connected"
                         \* or "disconnected" after the event handled last
  firstCmp               \* history: per external subscriber and key, the cell's value when it
                         \* subscribed, until the key is first assigned afterwards

vars == <<node, properties, setters, hostPre, pc, cells, attrs, registeredObservables, subscriptions,
          observers, subs, writer, log, turn, connected, firstCmp>>

(***************************************************************************)
(* Bounds of the model.                                                    *)
(***************************************************************************)
MaxVal == 1      \* property values assigned by the embedder are the numbers 0..MaxVal
MaxReg == 2      \* at most MaxReg pipelines are registered
MaxSubs == 3     \* at most MaxSubs subscriptions are alive at once

(***************************************************************************)
(* JavaScript values.  A value is a tuple whose first element is its type. *)
(* Text is a sequence of one-character strings.                            *)
(***************************************************************************)
Undefined == <<"undefined">>
Null == <<"null">>
NaN == <<"nan">>
Num(n) == <<"num", n>>
Bool(b) == <<"bool", b>>
Str(t) == <<"str", t>>
Thrown == <<"throw">>      \* the evaluation threw instead of returning a value
Missing == <<"missing">>   \* `key in node` is false
Absent == Null             \* getAttribute() of an attribute the host does not have

\* ToBoolean: the values `!x`, `x && y` and `x || y` treat as false.
Truthy(v) == v \notin {Undefined, Null, NaN, Num(0), Bool(FALSE), Str(<<>>)}

\* An object: its identity and its content.  The objects of the model are not
\* mutated, so two objects with the same identity have the same content.
Obj(ref, content) == <<"obj", ref, content>>

StrictEquals_Structural(x, y) ==
  IF x[1] = "obj" /\ y[1] = "obj" THEN x[3] = y[3] ELSE x = y /\ x # NaN

\* x === y: primitive values by value (NaN equals nothing), objects by identity.
StrictEquals(x, y) == x = y /\ x # NaN

DigitChars == <<"0", "1", "2", "3", "4", "5", "6", "7", "8", "9">>

IsDigit(c) == \E i \in 1..10 : DigitChars[i] = c

DigitValue(c) == (CHOOSE i \in 1..10 : DigitChars[i] = c) - 1

RECURSIVE NatToText(_)
\* Number.prototype.toString for a natural number.
NatToText(n) ==
  IF n < 10 THEN <<DigitChars[n + 1]>>
  ELSE NatToText(n \div 10) \o <<DigitChars[(n % 10) + 1]>>

RECURSIVE TextToNat(_)
\* The value of a non-empty text of digits.
TextToNat(t) ==
  IF Len(t) = 1 THEN DigitValue(t[1])
  ELSE 10 * TextToNat(SubSeq(t, 1, Len(t) - 1)) + DigitValue(t[Len(t)])

AllDigits(t) == Len(t) > 0 /\ \A i \in 1..Len(t) : IsDigit(t[i])

\* A URL object is its href; a Date object is its time value in milliseconds.
Url(href) == <<"url", href>>
DateOf(ms) == <<"date", ms>>
InvalidDate == <<"invalidDate">>

\* Date.prototype.toString(): the calendar form, which has the seconds of the
\* time value and not its milliseconds.  Written "D" and the seconds.
CalendarText(ms) == <<"D">> \o NatToText(ms \div 1000)

\* Date.prototype.toISOString(): the form that has the milliseconds.  Written
\* "T" and the milliseconds.
ISOText(ms) == <<"T">> \o NatToText(ms)

\* value.toString() of a value of the model.
ToText(v) ==
  CASE v[1] = "num" -> NatToText(v[2])
    [] v[1] = "str" -> v[2]
    [] v[1] = "bool" -> IF v[2] THEN <<"t", "r", "u", "e">> ELSE <<"f", "a", "l", "s", "e">>
    [] v[1] = "nan" -> <<"N", "a", "N">>
    [] v[1] = "url" -> v[2]
    [] v[1] = "date" -> CalendarText(v[2])
    [] v[1] = "obj" -> <<"[", "o", "b", "j", "e", "c", "t", " ", "O", "b", "j", "e", "c", "t", "]">>
    [] OTHER -> <<"?">>

\* Number(text) for the texts of the model: digits give the number, the empty
\* text gives 0, anything else NaN.
NumberOf(t) ==
  IF t = <<>> THEN Num(0)
  ELSE IF AllDigits(t) THEN Num(TextToNat(t))
  ELSE NaN

\* new Date(text): the calendar and the ISO form are dates; a text of digits as
\* long as a millisecond time value is not a date string, nor is any other text.
DateParse(t) ==
  IF Len(t) >= 2 /\ t[1] = "D" /\ AllDigits(Tail(t)) THEN DateOf(1000 * TextToNat(Tail(t)))
  ELSE IF Len(t) >= 2 /\ t[1] = "T" /\ AllDigits(Tail(t)) THEN DateOf(TextToNat(Tail(t)))
  ELSE InvalidDate

\* new Date(number)
DateFromNumber(n) == IF n[1] = "num" THEN DateOf(n[2]) ELSE InvalidDate

\* location.origin, and new URL(text, base): an absolute text is the href, any
\* other text is resolved against the base.
Origin == <<"h", ":">>

URLOf(t, base) ==
  IF Len(t) >= Len(Origin) /\ SubSeq(t, 1, Len(Origin)) = Origin THEN Url(t)
  ELSE Url(base \o t)

Quote == "\""
Backslash == "\\"

UnescapeJSON_Raw(t) == t

RECURSIVE UnescapeJSON(_)
\* The content of a JSON string literal between its quotes: \" and \\ are the
\* escapes of the model; a bare quote or a dangling backslash is a syntax error.
UnescapeJSON(t) ==
  IF t = <<>> THEN <<>>
  ELSE IF t[1] = Quote THEN Thrown
  ELSE IF t[1] = Backslash THEN
    IF Len(t) >= 2 /\ t[2] \in {Quote, Backslash}
    THEN LET rest == UnescapeJSON(SubSeq(t, 3, Len(t)))
         IN IF rest = Thrown THEN Thrown ELSE <<t[2]>> \o rest
    ELSE Thrown
  ELSE LET rest == UnescapeJSON(SubSeq(t, 2, Len(t)))
       IN IF rest = Thrown THEN Thrown ELSE <<t[1]>> \o rest

\* JSON.parse(text): numbers without sign or fraction, true, false, null and
\* string literals; Thrown for a SyntaxError.
JSONParse(t) ==
  IF AllDigits(t) /\ (Len(t) = 1 \/ t[1] # "0") THEN Num(TextToNat(t))
  ELSE IF t = <<"t", "r", "u", "e">> THEN Bool(TRUE)
  ELSE IF t = <<"f", "a", "l", "s", "e">> THEN Bool(FALSE)
  ELSE IF t = <<"n", "u", "l", "l">> THEN Null
  ELSE IF Len(t) >= 2 /\ t[1] = Quote /\ t[Len(t)] = Quote
    THEN LET inner == UnescapeJSON(SubSeq(t, 2, Len(t) - 1))
         IN IF inner = Thrown THEN Thrown ELSE Str(inner)
  ELSE Thrown

RECURSIVE EscapeQuotes(_)
\* attribute.replace(/"/g, '\\"')
EscapeQuotes(t) ==
  IF t = <<>> THEN <<>>
  ELSE (IF t[1] = Quote THEN <<Backslash, Quote>> ELSE <<t[1]>>)
       \o EscapeQuotes(SubSeq(t, 2, Len(t)))

(***************************************************************************)
(* The schema.  A PropertyConfig is a record: initial, attributeName ("" *)
(* when not given), converter ("" when not given) and effects ("" when not *)
(* given).                                                                 *)
(***************************************************************************)
Keys == <<"a", "b">>
KeySet == {Keys[i] : i \in 1..Len(Keys)}
AttrNames == KeySet \cup {"foo"}

\* prop(initial, config): the config with `initial` set.
prop(initial, config) == [config EXCEPT !.initial = initial]

NoConfig == [initial |-> Undefined, attributeName |-> "", converter |-> "", effects |-> ""]

\* The constructor of a value, as a converter.
ConstructorOf(v) ==
  CASE v[1] = "num" -> "Number"
    [] v[1] = "nan" -> "Number"
    [] v[1] = "str" -> "String"
    [] v[1] = "bool" -> "Boolean"
    [] v[1] = "url" -> "URL"
    [] v[1] = "date" -> "Date"
    [] OTHER -> ""

\* config.converter || config.initial && config.initial.constructor || JSON
ResolveConverter(config) ==
  IF config.converter # "" THEN config.converter
  ELSE IF Truthy(config.initial) THEN ConstructorOf(config.initial)
  ELSE "JSON"

\* node.getAttribute(name): null for an attribute the host does not have.
GetAttribute(as, name) == IF name \in DOMAIN as THEN as[name] ELSE Absent

HasAttribute_NonEmpty(as, name) == Truthy(GetAttribute(as, name))

\* node.hasAttribute(name)
HasAttribute(as, name) == GetAttribute(as, name) # Absent

\* The text of a present attribute.
AttrText(attribute) == attribute[2]

parseAttribute_NoBooleanCase(as, key, config) ==
  LET attributeName == config.attributeName
      attribute == IF attributeName # "" THEN GetAttribute(as, attributeName)
                   ELSE GetAttribute(as, key)
      converter == ResolveConverter(config)
  IN IF ~Truthy(attribute) THEN config.initial
     ELSE CASE converter = "JSON" ->
                 LET first == JSONParse(AttrText(attribute))
                 IN IF first # Thrown THEN first
                    ELSE JSONParse(<<Quote>> \o EscapeQuotes(AttrText(attribute)) \o <<Quote>>)
            [] converter = "Boolean" -> Bool(TRUE)
            [] converter = "String" -> Str(AttrText(attribute))
            [] converter = "Number" -> NumberOf(AttrText(attribute))
            [] OTHER -> Thrown

DecodeWith_ConvertsAbsent(converter, as, key, config) ==
  LET attributeName == config.attributeName
      attribute == IF attributeName # "" THEN GetAttribute(as, attributeName)
                   ELSE GetAttribute(as, key)
  IN CASE converter = "Boolean" -> Bool(attribute # Absent)
       [] converter = "NoParse" -> Thrown
       [] attribute = Absent /\ converter = "Number" -> Num(0)
       [] attribute = Absent /\ converter = "String" -> Str(<<"n", "u", "l", "l">>)
       [] attribute = Absent /\ converter = "JSON" -> Null
       [] OTHER -> config.initial

DecodeWith_ConvertsEmpty(converter, as, key, config) ==
  LET attributeName == config.attributeName
      attribute == IF attributeName # "" THEN GetAttribute(as, attributeName)
                   ELSE GetAttribute(as, key)
  IN IF attribute = Absent /\ converter # "Boolean" THEN config.initial
     ELSE CASE converter = "JSON" ->
                 LET first == JSONParse(AttrText(attribute))
                 IN IF first # Thrown THEN first
                    ELSE JSONParse(<<Quote>> \o EscapeQuotes(AttrText(attribute)) \o <<Quote>>)
            [] converter = "Boolean" ->
                 Bool(IF attributeName # "" THEN HasAttribute(as, attributeName)
                      ELSE HasAttribute(as, key))
            [] converter = "String" -> Str(AttrText(attribute))
            [] converter = "Number" -> NumberOf(AttrText(attribute))
            [] OTHER -> Thrown

DecodeWith_FallsBack(converter, as, key, config) ==
  LET attributeName == config.attributeName
      attribute == IF attributeName # "" THEN GetAttribute(as, attributeName)
                   ELSE GetAttribute(as, key)
  IN IF ~Truthy(attribute) /\ converter # "Boolean" THEN config.initial
     ELSE CASE converter = "JSON" ->
                 LET first == JSONParse(AttrText(attribute))
                 IN IF first # Thrown THEN first
                    ELSE JSONParse(<<Quote>> \o EscapeQuotes(AttrText(attribute)) \o <<Quote>>)
            [] converter = "Boolean" ->
                 Bool(IF attributeName # "" THEN HasAttribute(as, attributeName)
                      ELSE HasAttribute(as, key))
            [] converter = "String" -> Str(AttrText(attribute))
            [] converter = "Number" -> NumberOf(AttrText(attribute))
            [] OTHER -> config.initial

\* parseAttribute(node, key, config) from `if (!attribute && ...)` on, with the
\* converter it resolved.
DecodeWith(converter, as, key, config) ==
  LET attributeName == config.attributeName
      attribute == IF attributeName # "" THEN GetAttribute(as, attributeName)
                   ELSE GetAttribute(as, key)
  IN IF ~Truthy(attribute) /\ converter # "Boolean" THEN config.initial
     ELSE CASE converter = "JSON" ->
                 LET first == JSONParse(AttrText(attribute))
                 IN IF first # Thrown THEN first
                    ELSE JSONParse(<<Quote>> \o EscapeQuotes(AttrText(attribute)) \o <<Quote>>)
            [] converter = "Boolean" ->
                 Bool(IF attributeName # "" THEN HasAttribute(as, attributeName)
                      ELSE HasAttribute(as, key))
            [] converter = "URL" -> URLOf(AttrText(attribute), Origin)
            [] converter = "Date" ->
                 LET date == DateParse(AttrText(attribute))
                 IN IF date = InvalidDate
                    THEN DateFromNumber(NumberOf(AttrText(attribute)))
                    ELSE date
            [] converter = "String" -> Str(AttrText(attribute))
            [] converter = "Number" -> NumberOf(AttrText(attribute))
            [] OTHER -> Thrown

\* parseAttribute(node, key, config)
parseAttribute(as, key, config) == DecodeWith(ResolveConverter(config), as, key, config)

SeedOf_IgnoreHost(host, as, key, config) == parseAttribute(as, key, config)

\* createPropertiesDescriptors: the value the property's BehaviorSubject starts with.
\*   key in newBase ? newBase[key] : parseAttribute(newBase, key, config)
SeedOf(host, as, key, config) ==
  IF host[key] # Missing THEN host[key] ELSE parseAttribute(as, key, config)

\* createPropertiesDescriptors(base, props): the initial values of the triggers,
\* or Thrown when computing one of them threw (nothing is defined then).
createPropertiesDescriptors(host, as, props) ==
  LET seeds == [k \in KeySet |-> SeedOf(host, as, k, props[k])]
  IN IF \E k \in KeySet : seeds[k] = Thrown THEN Thrown ELSE seeds

ObjectFreeze_NotFrozen(table) == [table EXCEPT !.frozen = FALSE]

\* Object.freeze(triggers)
ObjectFreeze(table) == [table EXCEPT !.frozen = TRUE]

\* The table before createPropertiesDescriptors has run.
NoSetters == [frozen |-> FALSE, entries |-> <<>>]

\* createPropertiesDescriptors(base, props): the table it returns.
\*   triggers = {}; triggers[key] = [trigger$, config] for every key;
\*   Object.freeze(triggers)
\* The trigger of an entry is named by the key of its cell.
SettersOf(props) ==
  ObjectFreeze([frozen |-> FALSE, entries |-> [k \in KeySet |-> <<k, props[k]>>]])

\* table[name] = entry by a holder of the table: a TypeError on a frozen object
\* (module code is strict), which leaves the table as it is.
AssignEntry(table, name, entry) ==
  IF table.frozen THEN table
  ELSE [table EXCEPT !.entries =
          [n \in (DOMAIN table.entries) \cup {name} |->
             IF n = name THEN entry ELSE table.entries[n]]]

\* delete table[name] by a holder of the table: a TypeError on a frozen object.
DeleteEntry(table, name) ==
  IF table.frozen THEN table
  ELSE [table EXCEPT !.entries = [n \in (DOMAIN table.entries) \ {name} |-> table.entries[n]]]

\* The property names an object literal inherits from Object.prototype, among
\* the attribute names of the model.
ObjectPrototypeNames == {"constructor"}

\* A value found on Object.prototype: truthy, and not a [trigger$, config] pair.
Inherited == <<"inherited">>

\* setters[attr]: the own entry, else what the prototype chain gives, else undefined.
SettersLookup(table, attr) ==
  IF attr \in DOMAIN table.entries THEN table.entries[attr]
  ELSE IF attr \in ObjectPrototypeNames THEN Inherited
  ELSE Undefined

(***************************************************************************)
(* The reactive core.  `st` is the part of the state a synchronous turn    *)
(* changes: [cells, attrs, observers, subs, log].                          *)
(***************************************************************************)
Sources == KeySet \cup {"update$", "source", "connected$", "disconnected$"}
SubIds == 1..MaxSubs
Spies == {"s1", "s2"}
NoWriter == ""

\* What the writer does in its handler: on the event (WriterKey, WriterTrigger)
\* it assigns node[WriterKey] = WriterTarget.
WriterKey == "a"
WriterTrigger == Num(1)
WriterTarget == Num(2)

\* A subscription id not in use.
FreeSub ==
  [kind |-> "free", reg |-> 0, spy |-> "",
   hasKey |-> [k \in KeySet |-> FALSE], key |-> [k \in KeySet |-> Undefined]]

NewSub(kind, reg, spy) == [FreeSub EXCEPT !.kind = kind, !.reg = reg, !.spy = spy]

IsFree(st, id) == st.subs[id].kind = "free"

FreeIds(st) == {id \in SubIds : IsFree(st, id)}

\* The subscription object a subscribe() call creates.
FreshId(st) == CHOOSE id \in FreeIds(st) : \A other \in FreeIds(st) : id <= other

RemoveFrom(seq, id) == SelectSeq(seq, LAMBDA x : x # id)

Contains(seq, x) == \E i \in 1..Len(seq) : seq[i] = x

Logged(st, entry) == [st EXCEPT !.log = Append(@, entry)]

DistinctPasses_Always(sub, k, v) == TRUE

DistinctPasses_AgainstInitial(sub, k, v) ==
  ~sub.hasKey[k] \/ ~StrictEquals(properties[k].initial, v)

\* distinctUntilChanged(): the first value passes, later ones when they are not
\* === the value passed last.
DistinctPasses(sub, k, v) == ~sub.hasKey[k] \/ ~StrictEquals(sub.key[k], v)

\* Number.prototype.toFixed(2) for a natural number.
ToFixed(v) == NatToText(v[2]) \o <<".", "0", "0">>

RECURSIVE AttributeChangedHandler(_, _, _, _), Unsubscribe(_, _)

\* undefined and null have no toString: value.toString() throws a TypeError.
HasToString(v) == v # Undefined /\ v # Null

\* An error thrown inside tap() is caught by the operator and passed on as the
\* error notification of the pipeline, which closes the subscription.
EffectThrew(st, id, error) == Unsubscribe(Logged(st, <<"error", error>>), id)

\* The nested attribute-change signals one synchronous turn may run before the
\* model stops following them.
MaxSteps == 6

NodeSetAttribute_Silent(st, id, k, text) == [st EXCEPT !.attrs[k] = Str(text)]

\* node.setAttribute(key, text) called by an effect of subscription id.  A host
\* that reports its attribute writes synchronously (setAttribute of the test
\* host emits the signal before it returns) runs the attributeChanged handler
\* inside the effect; an error the handler throws is an error of the effect.
NodeSetAttribute(st, id, k, text) ==
  LET st1 == [st EXCEPT !.attrs[k] = Str(text)]
  IN IF ~node.reports THEN st1
     ELSE IF st1.fuel = 0 THEN Logged(st1, <<"cutoff", k>>)
     ELSE LET st2 == AttributeChangedHandler(
                       Logged([st1 EXCEPT !.fuel = @ - 1], <<"attributeChanged", k, Str(text)>>),
                       setters, k, Str(text))
          IN IF st2.log[Len(st2.log)][1] = "error" THEN Unsubscribe(st2, id) ELSE st2

ApplyEffects_OncePerWrite(st, id, k, v) ==
  IF \E n \in 1..Len(st.log) : st.log[n][1] = "effect" /\ st.log[n][3] = k
  THEN st
  ELSE CASE properties[k].effects = "reflect" ->
              Logged([st EXCEPT !.attrs[k] = Str(ToText(v))], <<"effect", id, k, v>>)
         [] properties[k].effects = "format" ->
              Logged([st EXCEPT !.attrs[k] = Str(ToFixed(v))], <<"effect", id, k, v>>)
         [] OTHER -> st

\* propertyConfig.effects ? propertyConfig.effects(instance) : tap()
\* The effects of the model are the one of the tests ("reflect"),
\*   tap(value => node.setAttribute(key, value.toString())),
\* and the one of the demo ("format"),
\*   tap(value => node.setAttribute(key, value.toFixed(2))), map(value => value.toFixed(2)).
\* ApplyEffects is what the effect does, EffectValue what it passes on.
ApplyEffects(st, id, k, v) ==
  CASE properties[k].effects = "reflect" ->
         IF HasToString(v)
         THEN NodeSetAttribute(Logged(st, <<"effect", id, k, v>>), id, k, ToText(v))
         ELSE EffectThrew(Logged(st, <<"effect", id, k, v>>), id, "TypeError")
    [] properties[k].effects = "format" ->
         Logged([st EXCEPT !.attrs[k] = Str(ToFixed(v))], <<"effect", id, k, v>>)
    [] OTHER -> st

EffectValue_Untransformed(k, v) == v

EffectValue(k, v) == IF properties[k].effects = "format" THEN Str(ToFixed(v)) ELSE v

TagEvent_FirstKey(k, v) == <<Keys[1], v>>

\* map((value) => [propertyName, value])
TagEvent(k, v) == <<k, v>>

mapProperties_Stale(st) == [k \in KeySet |-> cells[k]]

\* node[key]: the installed getter of a schema key reads the property's
\* BehaviorSubject; any other own property is read from the host.
NodeGet(st, key) == IF key \in KeySet THEN st.cells[key] ELSE node.others[key]

mapProperties_OwnKeys(st) ==
  [k \in {node.own[i] : i \in 1..Len(node.own)} |-> NodeGet(st, k)]

\* mapProperties(properties, node): Object.keys(properties) with node[key].
mapProperties(st) == [k \in KeySet |-> NodeGet(st, k)]

\* template(props): the value the embedder's template returns for a snapshot.
TemplateResult(reg, props) == <<"result", reg, props>>

RenderTarget_AlwaysHost(n) == n.id

\* node.shadowRoot || node
RenderTarget(n) == IF n.shadowRoot # Null THEN n.shadowRoot ELSE n.id

\* tap(props => renderer(template(props), node.shadowRoot || node)) behind
\* mapProperties: the template is called with the snapshot, then the renderer
\* with the template's result and the render target.
Rendered(st, reg) ==
  LET props == mapProperties(st)
  IN Logged(Logged(st, <<"render", reg, props>>),
            <<"renderer", reg, TemplateResult(reg, props), RenderTarget(node)>>)

DeliveryOrder_Reversed(list) == [i \in 1..Len(list) |-> list[Len(list) + 1 - i]]

\* Subject.next(): the observers are called in subscription order, from a copy
\* of the list taken when next() is entered.
DeliveryOrder(list) == list

ReplayValue_Initial(st, k) == properties[k].initial

\* BehaviorSubject: a new subscriber is sent the current value.
ReplayValue(st, k) == st.cells[k]

StoreValue_OnlyObserved(st, k, v) ==
  IF st.observers[k] = <<>> THEN st ELSE [st EXCEPT !.cells[k] = v]

\* BehaviorSubject.next(value) keeps the value before it delivers it; the
\* installed getter reads it back:
\*   get: () => trigger$.getValue(), set: (newValue) => trigger$.next(newValue)
StoreValue(st, k, v) == [st EXCEPT !.cells[k] = v]

\* node[key] through the installed getter.
PropertyGet(k) == cells[k]

RECURSIVE BehaviorSubjectNext(_, _, _), DeliverAll(_, _, _, _), Deliver(_, _, _, _)

\* What one subscription of propertyChanged$ does with a value of cell k:
\* distinctUntilChanged, the effects, the [propertyName, value] pair, and then the
\* subscriber: an external subscriber (which may assign a property in turn), or
\* the rest of a template's pipeline (mapProperties, tap(renderer(template(props)))).
Deliver(st, id, k, v) ==
  IF ~Contains(st.observers[k], id) THEN st
  ELSE IF ~DistinctPasses(st.subs[id], k, v) THEN st
  ELSE
    LET st1 == [st EXCEPT !.subs[id].hasKey[k] = TRUE, !.subs[id].key[k] = v]
        st2 == ApplyEffects(st1, id, k, v)
        ev == TagEvent(k, EffectValue(k, v))
        sub == st.subs[id]
    IN IF st2.subs[id].kind # sub.kind THEN st2  \* the effect ended the subscription
       ELSE
       CASE sub.kind = "spy" ->
              LET st3 == Logged(st2, <<"event", sub.spy, ev[1], ev[2]>>)
              IN IF sub.spy = writer /\ ev = <<WriterKey, WriterTrigger>>
                 THEN BehaviorSubjectNext(st3, WriterKey, WriterTarget)
                 ELSE st3
         [] sub.kind = "tpl" ->
              Rendered(st2, sub.reg)
         [] OTHER -> st2

DeliverAll(st, copy, k, v) ==
  IF copy = <<>> THEN st
  ELSE DeliverAll(Deliver(st, Head(copy), k, v), Tail(copy), k, v)

\* set: (newValue) => trigger$.next(newValue)
BehaviorSubjectNext(st, k, v) ==
  LET st1 == Logged(StoreValue(st, k, v), <<"next", k, v>>)
      st2 == DeliverAll(st1, DeliveryOrder(st.observers[k]), k, v)
  IN Logged(st2, <<"done", k, v>>)

SubscribeCell_NoReplay(st, id, k) == [st EXCEPT !.observers[k] = Append(@, id)]

\* trigger.pipe(...).subscribe(): the BehaviorSubject adds the observer and
\* replays its value to it.
SubscribeCell(st, id, k) ==
  LET st1 == [st EXCEPT !.observers[k] = Append(@, id)]
  IN Deliver(st1, id, k, ReplayValue(st1, k))

SubscribeCells_OnlyFirst(st, id, i) == SubscribeCell(st, id, Keys[1])

RECURSIVE SubscribeCells(_, _, _)
\* merge(...): the inner pipelines are subscribed in schema order.
SubscribeCells(st, id, i) ==
  IF i > Len(Keys) THEN st
  ELSE SubscribeCells(SubscribeCell(st, id, Keys[i]), id, i + 1)

SubscribePipeline_ReplaysUpdate(st, id, reg, kind) ==
  LET st1 == [st EXCEPT !.subs[id] = NewSub(kind, reg, "")]
  IN IF kind = "tpl"
     THEN LET st2 == SubscribeCells(st1, id, 1)
              st3 == [st2 EXCEPT !.observers["update$"] = Append(@, id)]
          IN Logged(st3, <<"render", reg, mapProperties(st3)>>)
     ELSE [st1 EXCEPT !.observers["source"] = Append(@, id)]

\* observable.subscribe() of a registered pipeline.  "ext" is a pipeline over the
\* embedder's own Subject; "tpl" is useTemplate's
\* merge(propertyChanged$, update$).pipe(mapProperties, tap(render)).
SubscribePipeline(st, id, reg, kind) ==
  LET st1 == [st EXCEPT !.subs[id] = NewSub(kind, reg, "")]
  IN IF kind = "tpl"
     THEN LET st2 == SubscribeCells(st1, id, 1)
          IN [st2 EXCEPT !.observers["update$"] = Append(@, id)]
     ELSE [st1 EXCEPT !.observers["source"] = Append(@, id)]

Unsubscribe_OnlyCells(st, id) ==
  [st EXCEPT !.observers = [s \in Sources |-> IF s \in KeySet THEN RemoveFrom(@[s], id)
                                                ELSE @[s]],
             !.subs[id] = FreeSub]

\* subscription.unsubscribe(): the observer leaves every Subject it was added to.
Unsubscribe(st, id) ==
  [st EXCEPT !.observers = [s \in Sources |-> RemoveFrom(@[s], id)],
             !.subs[id] = FreeSub]

(***************************************************************************)
(* create(): the handlers and the returned handle.                         *)
(***************************************************************************)
\* The names of the host's own properties outside the schema.
OtherNames == {"others"}

\* The host as create() finds it: an object without a shadowRoot whose own
\* enumerable properties are the schema names it already has a value under.
HostOf(host) ==
  [id |-> <<"node">>,
   own |-> SelectSeq(Keys, LAMBDA k : host[k] # Missing),
   others |-> [n \in OtherNames |-> Missing],
   shadowRoot |-> Null,
   reports |-> FALSE]

ObjectDefineProperties_Reversed(n, keys) ==
  [n EXCEPT !.own =
     n.own \o SelectSeq([i \in 1..Len(keys) |-> keys[Len(keys) + 1 - i]],
                        LAMBDA k : ~Contains(n.own, k))]

\* Object.defineProperties(newBase, descriptors): a name the object already owns
\* is redefined where it is, the other names are added after the existing ones
\* in the order of the descriptors.  Every descriptor has enumerable: true.
ObjectDefineProperties(n, keys) ==
  [n EXCEPT !.own = n.own \o SelectSeq(keys, LAMBDA k : ~Contains(n.own, k))]

\* Object.keys(node): the own enumerable property names.
ObjectKeys(n) == n.own

\* component: node
Component == node

State == [cells |-> cells, attrs |-> attrs, observers |-> observers, subs |-> subs,
          log |-> <<>>, fuel |-> MaxSteps]

Commit(st) ==
  /\ cells' = st.cells
  /\ attrs' = st.attrs
  /\ observers' = st.observers
  /\ subs' = st.subs
  /\ log' = st.log

\* The value firstCmp holds once the key has been assigned.
Compared == <<"compared">>

SpySubscribed(s) == \E id \in SubIds : subs[id].kind = "spy" /\ subs[id].spy = s

SpyId(s) == CHOOSE id \in SubIds : subs[id].kind = "spy" /\ subs[id].spy = s

\* The record of a turn: the operation and what held when it started.
TurnOf(op, k, v) ==
  [op |-> op, key |-> k, value |-> v,
   cells |-> cells,
   node |-> node,
   subscriptions |-> subscriptions,
   registered |-> Len(registeredObservables),
   spies |-> {s \in Spies : SpySubscribed(s)},
   first |-> [s \in Spies |-> IF k \in KeySet THEN firstCmp[s][k] ELSE Compared],
   connected |-> connected]

RECURSIVE MapSubscribe_LastFirst(_, _, _)
MapSubscribe_LastFirst(st, i, made) ==
  IF i > Len(registeredObservables) THEN [st |-> st, made |-> made]
  ELSE LET id == FreshId(st)
           reg == Len(registeredObservables) + 1 - i
       IN MapSubscribe_LastFirst(SubscribePipeline(st, id, reg, registeredObservables[reg].kind),
                                 i + 1, Append(made, id))

RECURSIVE MapSubscribe(_, _, _)
\* registeredObservables.map((observable) => observable.subscribe())
MapSubscribe(st, i, made) ==
  IF i > Len(registeredObservables) THEN [st |-> st, made |-> made]
  ELSE LET id == FreshId(st)
       IN MapSubscribe(SubscribePipeline(st, id, i, registeredObservables[i].kind),
                       i + 1, Append(made, id))

ConnectedHandler_OnlyWhenDisconnected(st) ==
  IF subscriptions # <<>> THEN [st |-> st, made |-> <<>>] ELSE MapSubscribe(st, 1, <<>>)

ConnectedHandler_NotRecorded(st) == [MapSubscribe(st, 1, <<>>) EXCEPT !.made = <<>>]

\* node.addEventListener('connected', ...): every registered pipeline is
\* subscribed; the subscriptions are pushed to `subscriptions`.
ConnectedHandler(st) == MapSubscribe(st, 1, <<>>)

RECURSIVE UnsubscribeEach(_, _)
\* .forEach((subscription) => subscription.unsubscribe())
UnsubscribeEach(st, ids) ==
  IF ids = <<>> THEN st
  ELSE UnsubscribeEach(Unsubscribe(st, Head(ids)), Tail(ids))

DisconnectedHandler_KeepsSubscribed(st, spliced) == st

\* node.addEventListener('disconnected', ...): subscriptions.splice(0, length)
\* empties the array; every subscription it held is unsubscribed.
DisconnectedHandler(st, spliced) == UnsubscribeEach(st, spliced)

RECURSIVE SubjectNext(_, _, _)
\* update$.next() and the embedder's Subject: each observer of the copy that is
\* still subscribed gets the signal.  A template renders the snapshot; the
\* embedder's pipeline records what it saw.
SubjectNext(st, source, copy) ==
  IF copy = <<>> THEN st
  ELSE LET id == Head(copy)
           sub == st.subs[id]
           st1 == IF ~Contains(st.observers[source], id) THEN st
                  ELSE IF sub.kind = "tpl"
                    THEN Rendered(st, sub.reg)
                  ELSE Logged(st, <<"spy", sub.reg>>)
       IN SubjectNext(st1, source, Tail(copy))

fromEvent_AnyEvent(eventName) == {"connected$", "disconnected$"}

\* fromEvent(node, eventName): the stream fed by the host's events of that name.
fromEvent(eventName) == IF eventName = "connected" THEN {"connected$"} ELSE {"disconnected$"}

RECURSIVE ListenersCalled(_, _, _)
\* The listeners a subscriber of a fromEvent stream added to the host: each one
\* passes the event on to its subscriber.
ListenersCalled(st, stream, copy) ==
  IF copy = <<>> THEN st
  ELSE LET id == Head(copy)
           st1 == IF Contains(st.observers[stream], id)
                  THEN Logged(st, <<"signal", stream, st.subs[id].spy>>)
                  ELSE st
       IN ListenersCalled(st1, stream, Tail(copy))

\* node.dispatchEvent(event) after the listener of create() has run: the
\* listeners added later, by the subscribers of connected$ and disconnected$,
\* are called in the order they were added.
DispatchToStreams(st, eventName) ==
  LET viaConnected ==
        IF "connected$" \in fromEvent(eventName)
        THEN ListenersCalled(st, "connected$", st.observers["connected$"]) ELSE st
  IN IF "disconnected$" \in fromEvent(eventName)
     THEN ListenersCalled(viaConnected, "disconnected$", st.observers["disconnected$"])
     ELSE viaConnected

WriteValues == {Num(n) : n \in 0..MaxVal}

\* node[k] = v through the installed setter.
SetProp(k, v) ==
  /\ pc = "ready"
  /\ Commit(BehaviorSubjectNext(State, k, v))
  /\ turn' = TurnOf("set", k, v)
  /\ firstCmp' = [s \in Spies |-> [firstCmp[s] EXCEPT ![k] = Compared]]
  /\ UNCHANGED <<node, properties, setters, hostPre, pc, registeredObservables, subscriptions, writer,
                 connected>>

Subscribe_SubscribesWhenConnected ==
  /\ pc = "ready"
  /\ Len(registeredObservables) < MaxReg
  /\ \A i \in 1..Len(registeredObservables) : registeredObservables[i].kind # "ext"
  /\ registeredObservables' =
       Append(registeredObservables, [kind |-> "ext", due |-> 0, early |-> connected = "never"])
  /\ turn' = TurnOf("subscribe", "", Undefined)
  /\ IF connected = "connected" /\ FreeIds(State) # {}
     THEN /\ Commit(SubscribePipeline(State, FreshId(State),
                                      Len(registeredObservables) + 1, "ext"))
          /\ subscriptions' = Append(subscriptions, FreshId(State))
     ELSE /\ log' = <<>>
          /\ UNCHANGED <<cells, attrs, subscriptions, observers, subs>>
  /\ UNCHANGED <<node, properties, setters, hostPre, pc, writer, connected, firstCmp>>

\* subscribe(observable) with the pipeline over the embedder's own Subject; the
\* embedder registers it once.  `due` and `early` are history: the connected
\* events handled since the pipeline was registered and since the last
\* disconnected event, and whether it was registered before the first connected
\* event.
Subscribe ==
  /\ pc = "ready"
  /\ Len(registeredObservables) < MaxReg
  /\ \A i \in 1..Len(registeredObservables) : registeredObservables[i].kind # "ext"
  /\ registeredObservables' =
       Append(registeredObservables, [kind |-> "ext", due |-> 0, early |-> connected = "never"])
  /\ turn' = TurnOf("subscribe", "", Undefined)
  /\ log' = <<>>
  /\ UNCHANGED <<node, properties, setters, hostPre, pc, cells, attrs, subscriptions, observers, subs,
                 writer, connected, firstCmp>>

\* useTemplate(template)
UseTemplate ==
  /\ pc = "ready"
  /\ Len(registeredObservables) < MaxReg
  /\ registeredObservables' =
       Append(registeredObservables, [kind |-> "tpl", due |-> 0, early |-> connected = "never"])
  /\ turn' = TurnOf("useTemplate", "", Undefined)
  /\ log' = <<>>
  /\ UNCHANGED <<node, properties, setters, hostPre, pc, cells, attrs, subscriptions, observers, subs,
                 writer, connected, firstCmp>>

\* The host dispatches 'connected'.
Connected ==
  /\ pc = "ready"
  /\ Cardinality(FreeIds(State)) >= Len(registeredObservables)
  /\ LET r == ConnectedHandler(State)
     IN /\ Commit(DispatchToStreams(r.st, "connected"))
        /\ subscriptions' = subscriptions \o r.made
  /\ connected' = "connected"
  /\ registeredObservables' =
       [i \in 1..Len(registeredObservables) |->
          [registeredObservables[i] EXCEPT !.due = @ + 1]]
  /\ turn' = TurnOf("connected", "", Undefined)
  /\ UNCHANGED <<node, properties, setters, hostPre, pc, writer, firstCmp>>

\* The host dispatches 'disconnected'.
Disconnected ==
  /\ pc = "ready"
  /\ Commit(DispatchToStreams(DisconnectedHandler(State, subscriptions), "disconnected"))
  /\ subscriptions' = <<>>
  /\ connected' = IF connected = "never" THEN "never" ELSE "disconnected"
  /\ registeredObservables' =
       [i \in 1..Len(registeredObservables) |->
          [registeredObservables[i] EXCEPT !.due = 0]]
  /\ turn' = TurnOf("disconnected", "", Undefined)
  /\ UNCHANGED <<node, properties, setters, hostPre, pc, writer, firstCmp>>

\* update()
Update ==
  /\ pc = "ready"
  /\ Commit(SubjectNext(State, "update$", observers["update$"]))
  /\ turn' = TurnOf("update", "", Undefined)
  /\ UNCHANGED <<node, properties, setters, hostPre, pc, registeredObservables, subscriptions, writer,
                 connected, firstCmp>>

\* The embedder's Subject emits.
SourceNext ==
  /\ pc = "ready"
  /\ Commit(SubjectNext(State, "source", observers["source"]))
  /\ turn' = TurnOf("emit", "", Undefined)
  /\ UNCHANGED <<node, properties, setters, hostPre, pc, registeredObservables, subscriptions, writer,
                 connected, firstCmp>>

\* propertyChanged$.subscribe(spy) by an external subscriber.
SpySubscribe(s) ==
  /\ pc = "ready"
  /\ ~SpySubscribed(s)
  /\ FreeIds(State) # {}
  /\ LET id == FreshId(State)
         st1 == [State EXCEPT !.subs[id] = NewSub("spy", 0, s)]
     IN Commit(SubscribeCells(st1, id, 1))
  /\ firstCmp' = [firstCmp EXCEPT ![s] = cells]
  /\ turn' = TurnOf("spySubscribe", "", Undefined)
  /\ UNCHANGED <<node, properties, setters, hostPre, pc, registeredObservables, subscriptions, writer,
                 connected>>

\* sub.unsubscribe() by an external subscriber.
SpyUnsubscribe(s) ==
  /\ pc = "ready"
  /\ SpySubscribed(s)
  /\ Commit(Unsubscribe(State, SpyId(s)))
  /\ firstCmp' = [firstCmp EXCEPT ![s] = [k \in KeySet |-> Compared]]
  /\ turn' = TurnOf("spyUnsubscribe", "", Undefined)
  /\ UNCHANGED <<node, properties, setters, hostPre, pc, registeredObservables, subscriptions, writer,
                 connected>>

(***************************************************************************)
(* The specification: a host with no own values and no attributes, the     *)
(* schema {a: prop(0), b: prop(1, {effects})}, one passive external        *)
(* subscriber.                                                             *)
(***************************************************************************)
Properties ==
  [k \in KeySet |->
     IF k = "a" THEN prop(Num(0), NoConfig)
     ELSE prop(Num(1), [NoConfig EXCEPT !.effects = "reflect"])]

EmptyHost == [k \in KeySet |-> Missing]

NoAttributes == [n \in AttrNames |-> Absent]

InitLifecycle ==
  /\ registeredObservables = <<>>
  /\ subscriptions = <<>>
  /\ observers = [s \in Sources |-> <<>>]
  /\ subs = [id \in SubIds |-> FreeSub]
  /\ log = <<>>
  /\ connected = "never"
  /\ firstCmp = [s \in Spies |-> [k \in KeySet |-> Compared]]

Init ==
  /\ properties = Properties
  /\ setters = SettersOf(properties)
  /\ hostPre = EmptyHost
  /\ node = ObjectDefineProperties(HostOf(hostPre), Keys)
  /\ attrs = NoAttributes
  /\ pc = "ready"
  /\ cells = createPropertiesDescriptors(hostPre, attrs, properties)
  /\ writer = NoWriter
  /\ InitLifecycle
  /\ turn = TurnOf("create", "", Undefined)

Next ==
  \/ \E k \in KeySet, v \in WriteValues : SetProp(k, v)
  \/ Subscribe
  \/ UseTemplate
  \/ Connected
  \/ Disconnected
  \/ Update
  \/ SourceNext
  \/ SpySubscribe("s1")
  \/ SpyUnsubscribe("s1")

Spec == Init /\ [][Next]_vars

(***************************************************************************)
(* What the last turn delivered.                                           *)
(***************************************************************************)
\* The calls of the embedder's tap(spy) on registered pipeline i.
SpyCalls(i) == SelectSeq(log, LAMBDA e : e[1] = "spy" /\ e[2] = i)

\* The invocations of the template of registered pipeline i, with their snapshots.
RendersOf(i) == SelectSeq(log, LAMBDA e : e[1] = "render" /\ e[2] = i)

\* The change events external subscriber s received.
EventsOf(s) == SelectSeq(log, LAMBDA e : e[1] = "event" /\ e[2] = s)

\* Those of them that are events of property k.
EventsOfKey(s, k) == SelectSeq(EventsOf(s), LAMBDA e : e[3] = k)

Registered == 1..Len(registeredObservables)

\* The last turn was an assignment that changed the property's value.
ChangingWrite == turn.op = "set" /\ turn.value # turn.cells[turn.key]

\* Subscription id is in the observer list of every source a pipeline of this
\* kind listens to.
Active(id, kind) ==
  IF kind = "tpl"
  THEN /\ \A k \in KeySet : Contains(observers[k], id)
       /\ Contains(observers["update$"], id)
  ELSE Contains(observers["source"], id)

\* C1: a pipeline registered with subscribe() before the first connected event
\* observes an emission of its source if and only if the emission happens after a
\* connected event and before the next disconnected event.
C1_ObservedIffConnected ==
  turn.op = "emit" =>
    \A i \in Registered :
      (registeredObservables[i].kind = "ext" /\ registeredObservables[i].early) =>
        ((SpyCalls(i) # <<>>) <=> (turn.connected = "connected"))

\* C1 witness: an emission between a connected and a disconnected event that the
\* early pipeline observed.
C1_Witness ==
  /\ turn.op = "emit"
  /\ turn.connected = "connected"
  /\ \E i \in Registered :
       /\ registeredObservables[i].kind = "ext"
       /\ registeredObservables[i].early
       /\ SpyCalls(i) # <<>>

\* C2: right after a disconnected event the recorded subscription set is empty
\* and every subscription it held is unsubscribed from every Subject.
C2_DisconnectClearsAll ==
  turn.op = "disconnected" =>
    /\ subscriptions = <<>>
    /\ \A n \in 1..Len(turn.subscriptions) :
         \A s \in Sources : ~Contains(observers[s], turn.subscriptions[n])

\* C2 witness: a disconnected event that found recorded subscriptions.
C2_Witness == turn.op = "disconnected" /\ Len(turn.subscriptions) >= 2

\* C3: right after every connected event, the first and the later ones, every
\* pipeline registered before it has a recorded subscription that is active.
C3_ConnectSubscribesAll ==
  turn.op = "connected" =>
    \A i \in 1..turn.registered :
      \E n \in 1..Len(subscriptions) :
        /\ subs[subscriptions[n]].reg = i
        /\ subs[subscriptions[n]].kind = registeredObservables[i].kind
        /\ Active(subscriptions[n], registeredObservables[i].kind)

\* C3 witness: a connected event that follows a disconnected event, with
\* pipelines registered.
C3_Witness ==
  /\ turn.op = "connected"
  /\ turn.connected = "disconnected"
  /\ turn.registered >= 2

\* C4: while a subscriber is subscribed to the change stream, an assignment
\* produces a change event of that property if and only if the assigned value
\* differs from the value the property held; assigning the held value produces none.
C4_EventIffChanged ==
  turn.op = "set" =>
    \A s \in turn.spies :
      Len(EventsOfKey(s, turn.key)) = IF turn.value # turn.cells[turn.key] THEN 1 ELSE 0

\* C4 witness: the held value is assigned again while a subscriber is subscribed,
\* after the property had been changed.
C4_Witness ==
  /\ turn.op = "set"
  /\ turn.spies # {}
  /\ turn.value = turn.cells[turn.key]
  /\ turn.value # properties[turn.key].initial
  /\ \A s \in turn.spies : turn.first[s] = Compared

\* The values installed at setup.
SeedValues == createPropertiesDescriptors(hostPre, NoAttributes, properties)

\* The assignment of the last turn was the first one to its property since
\* external subscriber s subscribed.
FirstWriteSince(s) == turn.op = "set" /\ s \in turn.spies /\ turn.first[s] # Compared

\* C5 as stated: the first assignment after a subscriber subscribes produces an
\* event if and only if the assigned value differs from the seed value.
C5_FirstComparedWithSeed ==
  \A s \in Spies :
    FirstWriteSince(s) =>
      ((EventsOfKey(s, turn.key) # <<>>) <=> (turn.value # SeedValues[turn.key]))

\* C5 amended: the first assignment after a subscriber subscribes produces an
\* event if and only if the assigned value differs from the value the property
\* held when the subscriber subscribed (the seed value only if the property was
\* not assigned between setup and the subscription).
C5_FirstComparedWithValueAtSubscribe ==
  \A s \in Spies :
    FirstWriteSince(s) =>
      ((EventsOfKey(s, turn.key) # <<>>) <=> (turn.value # turn.first[s]))

\* C5 witness: a first assignment after subscribing, of a property that was
\* assigned between setup and the subscription.
C5_Witness ==
  \E s \in Spies :
    /\ FirstWriteSince(s)
    /\ turn.first[s] # SeedValues[turn.key]
    /\ turn.value = SeedValues[turn.key]
    /\ EventsOfKey(s, turn.key) # <<>>

\* C6: a subscriber of the change stream receives, for every value-changing
\* assignment, exactly one event, the pair of that property and value, during the
\* assignment itself (so before the next assignment starts), and no event of any
\* other property; turns that assign nothing deliver no event to it.
C6_OneEventPerWriteInOrder ==
  \A s \in turn.spies :
    EventsOf(s) = IF ChangingWrite
                  THEN << <<"event", s, turn.key, turn.value>> >>
                  ELSE <<>>

\* C6 witness: a value-changing assignment to one property after a
\* value-changing assignment to another, with a subscriber subscribed.
C6_Witness ==
  /\ ChangingWrite
  /\ turn.key = "b"
  /\ turn.spies # {}
  /\ turn.cells["a"] # SeedValues["a"]
  /\ \A s \in turn.spies : Len(EventsOf(s)) = 1

\* The snapshot a render caused by the last assignment must carry.
SnapshotAfterWrite == [turn.cells EXCEPT ![turn.key] = turn.value]

\* C8 as stated: while connected, a value-changing assignment invokes each bound
\* template exactly once, with the snapshot of the new value and the unchanged
\* other values; after a disconnected event no template is invoked.
C8_EachTemplateOnce ==
  turn.op = "set" =>
    \A i \in Registered :
      registeredObservables[i].kind = "tpl" =>
        RendersOf(i) = IF ChangingWrite /\ turn.connected = "connected"
                       THEN << <<"render", i, SnapshotAfterWrite>> >>
                       ELSE <<>>

\* C8 amended: a value-changing assignment invokes each bound template once per
\* connected event handled since the template was bound and since the last
\* disconnected event (once in the usual case, not at all for a template bound
\* after the connected event, twice after two connected events), each time with
\* the snapshot of the new value and the unchanged other values; after a
\* disconnected event no template is invoked.
C8_EachTemplateOncePerConnect ==
  turn.op = "set" =>
    \A i \in Registered :
      registeredObservables[i].kind = "tpl" =>
        /\ RendersOf(i) =
             IF ChangingWrite
             THEN [n \in 1..registeredObservables[i].due |->
                     <<"render", i, SnapshotAfterWrite>>]
             ELSE <<>>
        /\ turn.connected # "connected" => registeredObservables[i].due = 0

\* C8 witness: connected once, two templates bound, one property changes and
\* each template is invoked once.
C8_Witness ==
  /\ ChangingWrite
  /\ turn.connected = "connected"
  /\ turn.cells # SeedValues
  /\ Len(registeredObservables) = 2
  /\ \A i \in Registered :
       /\ registeredObservables[i].kind = "tpl"
       /\ registeredObservables[i].due = 1
       /\ Len(RendersOf(i)) = 1

(***************************************************************************)
(* Re-entrant assignment: external subscriber "s1" assigns                 *)
(* node[WriterKey] = WriterTarget from its handler when it receives the    *)
(* event (WriterKey, WriterTrigger); "s2" is a passive subscriber.         *)
(***************************************************************************)
InitReentrant ==
  /\ properties = Properties
  /\ setters = SettersOf(properties)
  /\ hostPre = EmptyHost
  /\ node = ObjectDefineProperties(HostOf(hostPre), Keys)
  /\ attrs = NoAttributes
  /\ pc = "ready"
  /\ cells = createPropertiesDescriptors(hostPre, attrs, properties)
  /\ writer = "s1"
  /\ InitLifecycle
  /\ turn = TurnOf("create", "", Undefined)

NextReentrant ==
  \/ \E k \in KeySet, v \in WriteValues : SetProp(k, v)
  \/ \E s \in Spies : SpySubscribe(s)
  \/ \E s \in Spies : SpyUnsubscribe(s)

SpecReentrant == InitReentrant /\ [][NextReentrant]_vars

\* The values assigned to property k during the last turn, in the order the
\* assignments began.
WritesOfKey(k) ==
  LET nexts == SelectSeq(log, LAMBDA e : e[1] = "next" /\ e[2] = k)
  IN [n \in 1..Len(nexts) |-> nexts[n][3]]

\* The values of the events of property k subscriber s received, in order.
EventValues(s, k) ==
  LET evs == EventsOfKey(s, k)
  IN [n \in 1..Len(evs) |-> evs[n][4]]

RECURSIVE IsSubseq(_, _)
\* a is b with some elements left out.
IsSubseq(a, b) ==
  IF a = <<>> THEN TRUE
  ELSE IF b = <<>> THEN FALSE
  ELSE IF Head(a) = Head(b) THEN IsSubseq(Tail(a), Tail(b))
  ELSE IsSubseq(a, Tail(b))

\* No assignment begins while the delivery of another is unfinished.
NoNestedWrite ==
  \A i, j \in 1..Len(log) :
    (i < j /\ log[i][1] = "next" /\ log[j][1] = "next") =>
      \E m \in (i + 1)..(j - 1) : log[m][1] = "done"

\* Every assignment that began in the turn finished in it, the one begun last first.
RECURSIVE WellNested(_, _)
WellNested(entries, open) ==
  IF entries = <<>> THEN open = <<>>
  ELSE LET e == Head(entries)
       IN CASE e[1] = "next" -> WellNested(Tail(entries), <<e>> \o open)
            [] e[1] = "done" ->
                 /\ open # <<>>
                 /\ Head(open) = <<"next", e[2], e[3]>>
                 /\ WellNested(Tail(entries), Tail(open))
            [] OTHER -> WellNested(Tail(entries), open)

\* Position of subscriber s in the observer list of property k (0: not in it).
PositionOf(s, k) ==
  IF SpySubscribed(s) /\ Contains(observers[k], SpyId(s))
  THEN CHOOSE n \in 1..Len(observers[k]) : observers[k][n] = SpyId(s)
  ELSE 0

\* The last turn was an assignment of the trigger that reached the writer, which
\* assigned the target from its handler.
ReentrantTurn ==
  /\ turn.op = "set"
  /\ WritesOfKey(WriterKey) = <<WriterTrigger, WriterTarget>>

InstallInitials ==
  {Undefined, Num(0), Num(1), Bool(TRUE), Bool(FALSE), Str(<<>>), Str(<<"x">>)}

\* "" : no converter configured; "NoParse" : a class without a static parse.
InstallConverters == {"", "JSON", "Boolean", "Number", "String", "URL", "Date", "NoParse"}

InstallAttributeNames == {"", "foo"}

InstallAttributes == {Absent, Str(<<>>), Str(<<"1">>), Str(<<"x">>)}

InstallHosts ==
  {h \in [KeySet -> {Missing, Undefined, Num(1), Num(2)}] :
     /\ h["a"] \in {Missing, Undefined, Num(1)}
     /\ h["b"] \in {Missing, Num(2)}}

InitInstall ==
  /\ \E initial \in InstallInitials, converter \in InstallConverters,
        attributeName \in InstallAttributeNames :
       properties =
         [Properties EXCEPT
            !["a"] = prop(initial, [NoConfig EXCEPT !.converter = converter,
                                                    !.attributeName = attributeName])]
  /\ setters = NoSetters
  /\ hostPre \in InstallHosts
  /\ node = HostOf(hostPre)
  /\ attrs \in {as \in [AttrNames -> InstallAttributes] : as["b"] = Absent}
  /\ pc = "new"
  /\ cells = [k \in KeySet |-> Undefined]
  /\ writer = NoWriter
  /\ InitLifecycle
  /\ turn = TurnOf("none", "", Undefined)

\* The schema keys whose descriptor keys.map() has built when it ends: all of
\* them, or those before the first key whose seed threw.
DescriptorsBuilt(host, as, props) ==
  LET failing == {i \in 1..Len(Keys) : SeedOf(host, as, Keys[i], props[Keys[i]]) = Thrown}
  IN IF failing = {} THEN Keys
     ELSE SubSeq(Keys, 1, (CHOOSE i \in failing : \A j \in failing : i <= j) - 1)

DefineAccessors_AsBuilt(n, host, as, props) ==
  ObjectDefineProperties(n, DescriptorsBuilt(host, as, props))

\* Object.defineProperties(newBase, Object.fromEntries(keys.map(...))): the
\* argument is evaluated first, so a seed that throws leaves before
\* defineProperties is called and the host gets no accessor.
DefineAccessors(n, host, as, props) ==
  IF DescriptorsBuilt(host, as, props) = Keys THEN ObjectDefineProperties(n, Keys) ELSE n

\* create(node, properties, ...): installs the properties, or throws when the
\* decoding of an attribute throws.
Install ==
  /\ pc = "new"
  /\ node' = DefineAccessors(node, hostPre, attrs, properties)
  /\ LET installed == createPropertiesDescriptors(hostPre, attrs, properties)
     IN IF installed = Thrown
        THEN pc' = "failed" /\ UNCHANGED <<cells, setters>>
        ELSE /\ pc' = "ready"
             /\ cells' = installed
             /\ setters' = SettersOf(properties)
  /\ turn' = TurnOf("create", "", Undefined)
  /\ UNCHANGED <<properties, hostPre, attrs, registeredObservables, subscriptions,
                 observers, subs, writer, log, connected, firstCmp>>

NextInstall == Install

SpecInstall == InitInstall /\ [][NextInstall]_vars

\* The attribute a property is bound to: attributeName, else the property key.
BoundAttribute(k) ==
  IF properties[k].attributeName # "" THEN properties[k].attributeName ELSE k

\* C9 as stated: the initial value is the host's own value of that name if the
\* host has one; else the decoded value of the matching attribute; else the
\* declared default.
C9_SeedPrecedence ==
  pc = "ready" =>
    \A k \in KeySet :
      IF hostPre[k] # Missing THEN cells[k] = hostPre[k]
      ELSE IF HasAttribute(attrs, BoundAttribute(k))
      THEN cells[k] = parseAttribute(attrs, k, properties[k])
      ELSE cells[k] = properties[k].initial

\* C9 amended: the initial value is the host's own value of that name if the host
\* has one; else the decoded value of the matching attribute if the attribute is
\* present with a non-empty text or the resolved converter is Boolean (which
\* decodes to whether the attribute is present, so to false when it is absent);
\* else the declared default.
C9_SeedPrecedenceBooleanAbsent ==
  pc = "ready" =>
    \A k \in KeySet :
      IF hostPre[k] # Missing THEN cells[k] = hostPre[k]
      ELSE IF ResolveConverter(properties[k]) = "Boolean"
      THEN cells[k] = Bool(HasAttribute(attrs, BoundAttribute(k)))
      ELSE IF Truthy(GetAttribute(attrs, BoundAttribute(k)))
      THEN cells[k] = parseAttribute(attrs, k, properties[k])
      ELSE cells[k] = properties[k].initial

\* C9 witness: a host with a = 1 and b = 2 assigned before setup, an attribute
\* "a" that decodes to something else and another default, keeps a = 1, b = 2.
C9_Witness ==
  /\ pc = "ready"
  /\ hostPre["a"] = Num(1) /\ hostPre["b"] = Num(2)
  /\ attrs["a"] = Str(<<"x">>)
  /\ properties["a"].initial = Num(0)
  /\ properties["a"].attributeName = ""
  /\ cells["a"] = Num(1) /\ cells["b"] = Num(2)

\* The case of C10: no host value, no explicit attribute name, and no attribute
\* named like the property.
NothingProvided(k) ==
  /\ hostPre[k] = Missing
  /\ properties[k].attributeName = ""
  /\ ~HasAttribute(attrs, k)

\* C10 as stated: with no attribute, no host value and no explicit attribute
\* name, the property's initial value equals its declared default.
C10_DefaultWhenNothingProvided ==
  pc = "ready" =>
    \A k \in KeySet : NothingProvided(k) => cells[k] = properties[k].initial

\* C10 amended: with no attribute, no host value and no explicit attribute name,
\* the property's initial value equals its declared default, unless the resolved
\* converter is Boolean, in which case it is false.
C10_DefaultUnlessBoolean ==
  pc = "ready" =>
    \A k \in KeySet :
      NothingProvided(k) =>
        cells[k] = IF ResolveConverter(properties[k]) = "Boolean"
                   THEN Bool(FALSE)
                   ELSE properties[k].initial

\* C10 witness: property "a" with default 1 and nothing provided (another
\* attribute is present on the host) is installed with the value 1.
C10_Witness ==
  /\ pc = "ready"
  /\ NothingProvided("a")
  /\ attrs["foo"] = Str(<<"x">>)
  /\ properties["a"].initial = Num(1)
  /\ ResolveConverter(properties["a"]) = "Number"
  /\ cells["a"] = Num(1)

(***************************************************************************)
(* Attribute-change signals.  The host's attribute changes and the element *)
(* dispatches 'attributeChanged' with detail [attr, oldValue, newValue];   *)
(* newValue is null when the attribute was removed.                        *)
(***************************************************************************)
SignalNames == {"a", "foo", "bar", "constructor"}

\* The new values of the attributes that name a property; the other attributes
\* are set to SignalOther.
SignalValues == {Absent, Str(<<>>), Str(<<"1">>)}
SignalOther == Str(<<"1">>)

\* The host's attributes after setAttribute(name, value) / removeAttribute(name).
SetAttributeOf(as, name, value) ==
  [n \in (DOMAIN as) \cup {name} |-> IF n = name THEN value ELSE as[n]]

\* What parseAttribute reads from a string passed as its config:
\* attributeName, converter and initial of a string are undefined.
StringAsConfig ==
  [initial |-> Undefined, attributeName |-> "", converter |-> "", effects |-> ""]

\* The handler threw; the state is as the throw left it.
Raised(st, error) == Logged(st, <<"error", error>>)

AttributeChangedHandler_StoresSilently(st, table, attr, newValue) ==
  LET setter == SettersLookup(table, attr)
  IN IF ~Truthy(setter) \/ setter = Inherited \/ newValue = Null THEN st
     ELSE LET decoded == parseAttribute(st.attrs, attr, StringAsConfig)
          IN IF decoded = Thrown THEN st ELSE StoreValue(st, setter[1], decoded)

\* node.addEventListener('attributeChanged', ({ detail: [attr, , newValue] }) => {
\*   const [key, setter] = [attr, setters[attr]] || Object.entries(setters)
\*     .find(([, [, { attributeName }]]) => attributeName === attr) || [];
\*   if (!setter) { return; }
\*   setter[0].next(parseAttribute(node, key, newValue));
\* });
\* The array [attr, setters[attr]] is truthy, so key is attr and setter is
\* setters[attr]; the third argument of parseAttribute, its config, is newValue.
AttributeChangedHandler(st, table, attr, newValue) ==
  LET key == attr
      setter == SettersLookup(table, attr)
  IN IF ~Truthy(setter) THEN st
     ELSE IF setter = Inherited THEN Raised(st, "TypeError")  \* setter[0] is undefined
     ELSE IF newValue = Null THEN Raised(st, "TypeError")     \* config.attributeName of null
     ELSE LET decoded == parseAttribute(st.attrs, key, StringAsConfig)
          IN IF decoded = Thrown THEN Raised(st, "SyntaxError")
             ELSE BehaviorSubjectNext(st, setter[1], decoded)

\* The attribute attr of the host becomes newValue and the signal is handled.
AttributeChanged(attr, newValue) ==
  /\ pc = "ready"
  /\ LET st == AttributeChangedHandler(
                 [State EXCEPT !.attrs = SetAttributeOf(attrs, attr, newValue)],
                 setters, attr, newValue)
     IN /\ Commit(st)
        /\ firstCmp' = [s \in Spies |->
                          [k \in KeySet |->
                             IF Contains(st.log, <<"next", k, st.cells[k]>>)
                             THEN Compared ELSE firstCmp[s][k]]]
  /\ turn' = TurnOf("attributeChanged", attr, newValue)
  /\ UNCHANGED <<node, properties, setters, hostPre, pc, registeredObservables, subscriptions,
                 writer, connected>>

\* setters[name] = entry, attempted by the caller of createPropertiesDescriptors.
SettersAssign(name) ==
  /\ pc = "ready"
  /\ setters' = AssignEntry(setters, name, <<"b", properties["b"]>>)
  /\ turn' = TurnOf("assignEntry", name, Undefined)
  /\ log' = <<>>
  /\ UNCHANGED <<node, properties, hostPre, pc, cells, attrs, registeredObservables,
                 subscriptions, observers, subs, writer, connected, firstCmp>>

\* delete setters[name], attempted by the caller of createPropertiesDescriptors.
SettersDelete(name) ==
  /\ pc = "ready"
  /\ setters' = DeleteEntry(setters, name)
  /\ turn' = TurnOf("deleteEntry", name, Undefined)
  /\ log' = <<>>
  /\ UNCHANGED <<node, properties, hostPre, pc, cells, attrs, registeredObservables,
                 subscriptions, observers, subs, writer, connected, firstCmp>>

\* The schemas of property "a": a number (converter Number by its default), a
\* boolean flag, and a property bound to the attribute "foo".
SignalSchemas ==
  {prop(Num(1), NoConfig),
   prop(Bool(FALSE), [NoConfig EXCEPT !.converter = "Boolean"]),
   prop(Num(0), [NoConfig EXCEPT !.attributeName = "foo"])}

InitSignals ==
  /\ \E config \in SignalSchemas :
       properties = [k \in KeySet |-> IF k = "a" THEN config ELSE prop(Num(1), NoConfig)]
  /\ setters = SettersOf(properties)
  /\ hostPre = EmptyHost
  /\ node = ObjectDefineProperties(HostOf(hostPre), Keys)
  /\ attrs = NoAttributes
  /\ pc = "ready"
  /\ cells = createPropertiesDescriptors(hostPre, attrs, properties)
  /\ writer = NoWriter
  /\ InitLifecycle
  /\ turn = TurnOf("create", "", Undefined)

NextSignals ==
  \/ \E v \in WriteValues : SetProp("a", v)
  \/ \E newValue \in SignalValues : AttributeChanged("a", newValue)
  \/ UseTemplate
  \/ Connected
  \/ Disconnected
  \/ SpySubscribe("s1")
  \/ SettersAssign("c")
  \/ SettersDelete("a")

SpecSignals == InitSignals /\ [][NextSignals]_vars

\* Signals of attributes that do not name a property: "foo" is the explicit
\* attributeName of property "a" in one of the schemas, "bar" is bound to
\* nothing, "constructor" is a name the table inherits.
NextUnnamed ==
  \/ \E attr \in SignalNames \ KeySet : AttributeChanged(attr, SignalOther)
  \/ \E attr \in SignalNames \ KeySet : AttributeChanged(attr, Absent)
  \/ UseTemplate
  \/ Connected
  \/ SpySubscribe("s1")

SpecUnnamed == InitSignals /\ [][NextUnnamed]_vars

\* The value written last to the cell of property k: by the last turn if it
\* wrote the cell, else what the cell held when the turn began (the seed value
\* after create()).
LastWritten(k) ==
  IF WritesOfKey(k) # <<>> THEN WritesOfKey(k)[Len(WritesOfKey(k))]
  ELSE IF turn.op = "create" THEN SeedValues[k]
  ELSE turn.cells[k]

\* C11: in every reachable state, reading a schema property on the host returns
\* the value written last to its cell, by an assignment or by an attribute
\* signal, or the seed value if nothing was written; connected or not, with or
\* without a change event.
C11_ReadIsLastWritten ==
  pc = "ready" => \A k \in KeySet : PropertyGet(k) = LastWritten(k)

\* C11 witness: with the host disconnected and a subscriber subscribed, an
\* attribute signal writes the value the property already holds (no event), a
\* value other than the seed, and the property reads that value.
C11_Witness ==
  /\ turn.op = "attributeChanged"
  /\ connected = "disconnected"
  /\ WritesOfKey("a") # <<>>
  /\ turn.spies # {}
  /\ EventsOf("s1") = <<>>
  /\ PropertyGet("a") = WritesOfKey("a")[1]
  /\ PropertyGet("a") # SeedValues["a"]

\* C12: the table createPropertiesDescriptors returns is frozen and holds, in
\* every state reached by assignments, attribute signals, connected and
\* disconnected events and attempts to change the table, exactly one entry per
\* schema key: the key's own trigger and its definition.
C12_TableFrozenOneEntryPerKey ==
  pc = "ready" =>
    /\ setters.frozen
    /\ DOMAIN setters.entries = KeySet
    /\ \A k \in KeySet : setters.entries[k] = <<k, properties[k]>>

\* C12 witness: after an attribute signal and a connected event, the deletion of
\* an entry was attempted and the entry is still there.
C12_Witness ==
  /\ turn.op = "deleteEntry"
  /\ turn.connected = "connected"
  /\ attrs["a"] # Absent
  /\ cells["a"] # SeedValues["a"]
  /\ turn.key \in DOMAIN setters.entries

\* The last turn handled a signal of attribute turn.key with new value turn.value.
SignalTurn == turn.op = "attributeChanged"

\* An error was raised during the last turn.
ErrorRaised == \E i \in 1..Len(log) : log[i][1] = "error"

\* C13: a signal whose attribute name is not a schema property name but is the
\* explicit attributeName of a schema property is resolved to that property, and
\* the decoded value is written into the property's cell.
C13_ExplicitNameResolved ==
  (SignalTurn /\ turn.key \notin KeySet) =>
    \A k \in KeySet :
      properties[k].attributeName = turn.key =>
        /\ cells[k] = parseAttribute(attrs, k, properties[k])
        /\ Contains(log, <<"next", k, cells[k]>>)

\* C14: a signal whose attribute name is neither a schema property name nor an
\* explicit attributeName is a no-op: no error is raised, no cell changes, no
\* change event is emitted and no template is invoked.
C14_UnmatchedIsNoOp ==
  (/\ SignalTurn
   /\ turn.key \notin KeySet
   /\ \A k \in KeySet : properties[k].attributeName # turn.key) =>
    /\ ~ErrorRaised
    /\ cells = turn.cells
    /\ log = <<>>

\* C15: on a signal that resolves to a schema property, the value written into
\* the cell is parseAttribute's decode computed with that property's own
\* definition (its converter, its attribute name, its default): a Boolean
\* property receives true exactly when the attribute is present, a Number
\* property a number.
C15_DecodedWithOwnDefinition ==
  (SignalTurn /\ turn.key \in KeySet) =>
    LET expected == parseAttribute(attrs, turn.key, properties[turn.key])
    IN expected # Thrown =>
         /\ ~ErrorRaised
         /\ cells[turn.key] = expected
         /\ WritesOfKey(turn.key) = <<expected>>

\* The last turn changed the value of the property the signal named.
SignalChangedValue == cells[turn.key] # turn.cells[turn.key]

\* C16: a write caused by an attribute signal goes through the change detection
\* of an assignment: every subscriber of the change stream gets one event, the
\* property and its new value, if the signal changed the property's value and
\* none if it did not; every bound template is invoked with the new snapshot by
\* each of its subscriptions (one per connected event since it was bound and
\* since the last disconnected event) if the value changed and not at all if it
\* did not.
C16_SignalGoesThroughChangeDetection ==
  (SignalTurn /\ turn.key \in KeySet) =>
    /\ \A s \in turn.spies :
         EventsOf(s) = IF SignalChangedValue
                       THEN << <<"event", s, turn.key, cells[turn.key]>> >>
                       ELSE <<>>
    /\ \A i \in Registered :
         RendersOf(i) = IF SignalChangedValue
                        THEN [n \in 1..registeredObservables[i].due |->
                                <<"render", i, cells>>]
                        ELSE <<>>

\* C16 witness: while connected, with a subscriber and a bound template, a signal
\* changes the property's value: one event and one render.
C16_Witness ==
  /\ SignalTurn
  /\ turn.key = "a"
  /\ turn.connected = "connected"
  /\ SignalChangedValue
  /\ EventsOf("s1") = << <<"event", "s1", "a", cells["a"]>> >>
  /\ Len(registeredObservables) = 1
  /\ RendersOf(1) = << <<"render", 1, cells>> >>

(***************************************************************************)
(* Decoding: the definition of property "a" and the text of the attribute  *)
(* it is bound to are drawn from small sets; create() decodes the          *)
(* attribute when it installs the property on a host without own values.   *)
(***************************************************************************)
MaxText == 2     \* attribute texts have at most MaxText characters

TextChars == {"1", "x", Quote, Backslash}

RECURSIVE TextsUpTo(_)
\* The texts of at most n characters.
TextsUpTo(n) ==
  IF n = 0 THEN {<<>>}
  ELSE LET shorter == TextsUpTo(n - 1)
       IN shorter \cup {Append(t, c) : t \in shorter, c \in TextChars}

DecodeInitials == InstallInitials \cup {Null}

InitDecode ==
  /\ \E initial \in DecodeInitials, converter \in InstallConverters,
        attributeName \in InstallAttributeNames :
       properties =
         [Properties EXCEPT
            !["a"] = prop(initial, [NoConfig EXCEPT !.converter = converter,
                                                    !.attributeName = attributeName])]
  /\ setters = NoSetters
  /\ hostPre = EmptyHost
  /\ node = HostOf(hostPre)
  /\ \E bound \in {Absent} \cup {Str(t) : t \in TextsUpTo(MaxText)},
        other \in {Absent, Str(<<"1">>)} :
       attrs = [n \in AttrNames |->
                  IF n = (IF properties["a"].attributeName # ""
                          THEN properties["a"].attributeName ELSE "a")
                  THEN bound
                  ELSE IF n \in {"a", "foo"} THEN other ELSE Absent]
  /\ pc = "new"
  /\ cells = [k \in KeySet |-> Undefined]
  /\ writer = NoWriter
  /\ InitLifecycle
  /\ turn = TurnOf("none", "", Undefined)

SpecDecode == InitDecode /\ [][NextInstall]_vars

\* The attribute property "a" is bound to, as the host holds it.
BoundText == attrs[BoundAttribute("a")]

\* C17: with the Boolean converter, decode returns true whenever the bound
\* attribute (the explicit attributeName if given, else the property name) is
\* present, with any text including the empty one, and false whenever it is
\* absent, whatever the declared default.
C17_BooleanIsPresence ==
  (pc # "new" /\ ResolveConverter(properties["a"]) = "Boolean") =>
    /\ pc = "ready"
    /\ cells["a"] = Bool(BoundText # Absent)

\* C17 witness: a Boolean property with default false bound to "foo", whose
\* attribute is present with the empty text while the attribute named like the
\* property is absent: decoded true.
C17_Witness ==
  /\ pc = "ready"
  /\ properties["a"].converter = "Boolean"
  /\ properties["a"].initial = Bool(FALSE)
  /\ properties["a"].attributeName = "foo"
  /\ attrs["foo"] = Str(<<>>)
  /\ attrs["a"] = Absent
  /\ cells["a"] = Bool(TRUE)

\* The converter the resolution order of C18 gives: the explicit converter, else
\* the runtime type of the default, else (undefined or null default) JSON.
ConverterByRuntimeType(config) ==
  IF config.converter # "" THEN config.converter
  ELSE IF config.initial \in {Undefined, Null} THEN "JSON"
  ELSE ConstructorOf(config.initial)

\* What install leaves when the attribute of property "a" decodes to `decoded`.
InstalledAs(decoded) ==
  IF decoded = Thrown THEN pc = "failed" ELSE pc = "ready" /\ cells["a"] = decoded

\* C18: decode uses the explicit converter if one is given; else the runtime type
\* of the default (Boolean for true and false, Number for every number including
\* 0, String for every string including the empty one); else, for an undefined
\* or null default, the JSON parse.
C18_ConverterByRuntimeType ==
  pc # "new" =>
    InstalledAs(DecodeWith(ConverterByRuntimeType(properties["a"]), attrs, "a",
                           properties["a"]))

\* C19: when the bound attribute is absent and the resolved converter is not
\* Boolean, decode returns the declared default and does not invoke the
\* converter (a converter that throws when invoked does not throw, Number does
\* not give 0, String does not give "null").
C19_AbsentGivesDefault ==
  (pc # "new" /\ BoundText = Absent /\ ResolveConverter(properties["a"]) # "Boolean") =>
    /\ pc = "ready"
    /\ cells["a"] = properties["a"].initial

\* C19 witness: the bound attribute "foo" is absent, the attribute named like
\* the property is present, and the converter is one that throws when invoked:
\* the default is installed.
C19_Witness ==
  /\ pc = "ready"
  /\ properties["a"].attributeName = "foo"
  /\ properties["a"].converter = "NoParse"
  /\ properties["a"].initial = Num(1)
  /\ attrs["foo"] = Absent
  /\ attrs["a"] = Str(<<"1">>)
  /\ cells["a"] = Num(1)

\* C20: decoding with the JSON converter never propagates a parse error: for
\* every non-empty attribute text that is not a valid JSON literal, decode falls
\* back to parsing the text as a string literal and returns a string.
C20_JSONNeverThrows ==
  (/\ pc # "new"
   /\ ResolveConverter(properties["a"]) = "JSON"
   /\ BoundText # Absent
   /\ AttrText(BoundText) # <<>>
   /\ JSONParse(AttrText(BoundText)) = Thrown) =>
    /\ pc = "ready"
    /\ cells["a"] = Str(AttrText(BoundText))

(***************************************************************************)
(* C21: a converter without a parse function.                              *)
(***************************************************************************)
\* C21 as stated: decoding a present attribute with a custom converter that has
\* no parse function raises an error that is not caught; no fallback value such
\* as the default is returned.
C21_PresentRaises ==
  (/\ pc # "new"
   /\ ResolveConverter(properties["a"]) = "NoParse"
   /\ BoundText # Absent) =>
    pc = "failed"

\* C21: decoding a present attribute whose text is not empty with a custom
\* converter that has no parse function raises an error that is not caught
\* (create() fails, no value is installed); a present attribute with the empty
\* text is not converted at all and gives the declared default.
C21_NonEmptyRaises ==
  (/\ pc # "new"
   /\ ResolveConverter(properties["a"]) = "NoParse"
   /\ BoundText # Absent) =>
    IF AttrText(BoundText) # <<>>
    THEN pc = "failed" /\ cells["a"] = Undefined /\ setters = NoSetters
    ELSE pc = "ready" /\ cells["a"] = properties["a"].initial

\* C21 witness: the converter has no parse function, the default is 1 and the
\* bound attribute has the text "x": create() has failed.
C21_Witness ==
  /\ pc = "failed"
  /\ properties["a"].converter = "NoParse"
  /\ properties["a"].initial = Num(1)
  /\ BoundText = Str(<<"x">>)

(***************************************************************************)
(* Round trip: the attribute of property "a" holds the stringified form of *)
(* a value of the converter's type, and create() decodes it.               *)
(***************************************************************************)
RECURSIVE EscapeJSON(_)
\* The content JSON.stringify writes between the quotes of a string: the quote
\* and the backslash are escaped.
EscapeJSON(t) ==
  IF t = <<>> THEN <<>>
  ELSE (IF t[1] \in {Quote, Backslash} THEN <<Backslash, t[1]>> ELSE <<t[1]>>)
       \o EscapeJSON(Tail(t))

\* JSON.stringify(v) for the JSON values of the model.
JSONStringify(v) ==
  CASE v[1] = "str" -> <<Quote>> \o EscapeJSON(v[2]) \o <<Quote>>
    [] v[1] = "null" -> <<"n", "u", "l", "l">>
    [] OTHER -> ToText(v)

RoundTripConverters == {"JSON", "Boolean", "Number", "URL", "Date"}

\* The values of a converter's type.
ValuesOf(converter) ==
  CASE converter = "JSON" ->
         {Null, Bool(TRUE), Bool(FALSE)} \cup {Num(n) : n \in 0..MaxVal}
           \cup {Str(t) : t \in TextsUpTo(MaxText)}
    [] converter = "Boolean" -> {Bool(TRUE), Bool(FALSE)}
    [] converter = "Number" -> {Num(n) : n \in 0..(MaxVal + 10)}
    [] converter = "URL" -> {Url(Origin \o t) : t \in {<<>>, <<"x">>, <<"x", "1">>}}
    [] converter = "Date" -> {DateOf(1000 * s + ms) : s \in 0..MaxVal, ms \in 0..1}

\* The ways a value of the converter's type is written as text: JSON.stringify
\* for JSON; toString(), toISOString() and the time value for a Date;
\* toString() for the others.
FormsOf(converter) ==
  IF converter = "Date" THEN {"toString", "toISOString", "getTime"}
  ELSE IF converter = "JSON" THEN {"stringify"}
  ELSE {"toString"}

Stringified(converter, v, form) ==
  CASE form = "stringify" -> JSONStringify(v)
    [] form = "toISOString" -> ISOText(v[2])
    [] form = "getTime" -> NatToText(v[2])
    [] OTHER -> ToText(v)

InitRoundTrip ==
  /\ \E initial \in DecodeInitials, converter \in RoundTripConverters,
        attributeName \in InstallAttributeNames :
       properties =
         [Properties EXCEPT
            !["a"] = prop(initial, [NoConfig EXCEPT !.converter = converter,
                                                    !.attributeName = attributeName])]
  /\ setters = NoSetters
  /\ hostPre = EmptyHost
  /\ node = HostOf(hostPre)
  /\ \E v \in ValuesOf(properties["a"].converter),
        form \in FormsOf(properties["a"].converter) :
       attrs = [n \in AttrNames |->
                  IF n = (IF properties["a"].attributeName # ""
                          THEN properties["a"].attributeName ELSE "a")
                  THEN Str(Stringified(properties["a"].converter, v, form))
                  ELSE Absent]
  /\ pc = "new"
  /\ cells = [k \in KeySet |-> Undefined]
  /\ writer = NoWriter
  /\ InitLifecycle
  /\ turn = TurnOf("none", "", Undefined)

SpecRoundTrip == InitRoundTrip /\ [][NextInstall]_vars

RoundTrips(converter, v, form) ==
  CASE converter = "Boolean" -> v = Bool(TRUE)
    [] converter = "Date" /\ form = "toString" -> v[2] % 1000 = 0
    [] OTHER -> TRUE

SubscriptionsOf(i) ==
  {id \in SubIds : subs[id].kind = registeredObservables[i].kind /\ subs[id].reg = i
                   /\ Active(id, registeredObservables[i].kind)}

\* C23: a pipeline registered with subscribe() while the host is connected is
\* not subscribed at registration time (no subscription is made or recorded),
\* observes no emission of its source until the next connected event, and is
\* subscribed by that event, after which it observes the emissions.
C23_RegisteredWhileConnected ==
  /\ (turn.op = "subscribe" /\ turn.connected = "connected") =>
       /\ SubscriptionsOf(Len(registeredObservables)) = {}
       /\ subscriptions = turn.subscriptions
       /\ registeredObservables[Len(registeredObservables)].kind = "ext"
  /\ \A i \in Registered :
       (registeredObservables[i].kind = "ext" /\ ~registeredObservables[i].early) =>
         /\ (registeredObservables[i].due = 0) <=> (SubscriptionsOf(i) = {})
         /\ turn.op = "emit" =>
              ((SpyCalls(i) = <<>>) <=> (registeredObservables[i].due = 0))
         /\ (turn.op = "connected" /\ i <= turn.registered) =>
              \E n \in 1..Len(subscriptions) :
                /\ subscriptions[n] \in SubscriptionsOf(i)
                /\ n > Len(turn.subscriptions)

\* C23 witness: the source emits while the host is connected, and the pipeline
\* registered after the connected event has observed nothing.
C23_Witness ==
  /\ turn.op = "emit"
  /\ turn.connected = "connected"
  /\ \E i \in Registered :
       /\ registeredObservables[i].kind = "ext"
       /\ ~registeredObservables[i].early
       /\ registeredObservables[i].due = 0
       /\ SpyCalls(i) = <<>>
  /\ \E i \in Registered :
       /\ registeredObservables[i].kind = "tpl"
       /\ registeredObservables[i].due = 1

\* C24 as stated: update() while the host is connected invokes each bound
\* template exactly once with the full snapshot of the current values, without
\* any property having changed; update() while the host is disconnected invokes
\* no template.
C24_UpdateOnce ==
  turn.op = "update" =>
    /\ cells = turn.cells
    /\ \A i \in Registered :
         registeredObservables[i].kind = "tpl" =>
           RendersOf(i) = IF turn.connected = "connected"
                          THEN << <<"render", i, cells>> >>
                          ELSE <<>>

\* C24: update() changes no property and invokes each bound template once per
\* connected event handled since the template was bound and since the last
\* disconnected event (once in the usual case, not at all for a template bound
\* after the connected event, twice after two connected events), each time with
\* the full snapshot of the current values; while the host is not connected it
\* invokes no template, and the next connected event replays nothing of it: it
\* invokes each bound template once per schema property, for the replay of
\* that property's value.
C24_UpdateOncePerConnect ==
  /\ turn.op = "update" =>
       /\ cells = turn.cells
       /\ \A s \in Spies : EventsOf(s) = <<>>
       /\ \A i \in Registered :
            registeredObservables[i].kind = "tpl" =>
              /\ RendersOf(i) =
                   [n \in 1..registeredObservables[i].due |-> <<"render", i, cells>>]
              /\ turn.connected # "connected" => registeredObservables[i].due = 0
  /\ turn.op = "connected" =>
       \A i \in 1..turn.registered :
         registeredObservables[i].kind = "tpl" =>
           RendersOf(i) = [n \in 1..Len(Keys) |-> <<"render", i, cells>>]

\* C24 witness: update() on a connected host whose property values are no
\* longer the initial ones; the template bound before the connected event is
\* invoked once with the current values.
C24_Witness ==
  /\ turn.op = "update"
  /\ turn.connected = "connected"
  /\ cells # SeedValues
  /\ \E i \in Registered :
       /\ registeredObservables[i].kind = "tpl"
       /\ registeredObservables[i].due = 1
       /\ RendersOf(i) = << <<"render", i, cells>> >>

\* The subscriptions the connected event of the last turn made.
MadeByConnect ==
  {subscriptions[n] : n \in (Len(turn.subscriptions) + 1)..Len(subscriptions)}

\* C25: across a disconnect/reconnect cycle only the cell values persist.  An
\* assignment while the host is not connected is stored and delivered to no
\* template; the connected event changes no value, and every subscription it
\* makes starts from scratch: whatever was delivered before, it is delivered
\* the current value of every property, so each template is invoked with the
\* snapshot of the current values and with no other.
C25_OnlyValuesPersist ==
  /\ (turn.op = "set" /\ turn.connected # "connected") =>
       /\ cells = SnapshotAfterWrite
       /\ \A i \in Registered : RendersOf(i) = <<>> /\ SubscriptionsOf(i) = {}
  /\ turn.op = "connected" =>
       /\ cells = turn.cells
       /\ \A id \in MadeByConnect :
            subs[id].kind = "tpl" =>
              \A k \in KeySet : subs[id].hasKey[k] /\ subs[id].key[k] = cells[k]
       /\ \A i \in 1..turn.registered :
            registeredObservables[i].kind = "tpl" =>
              /\ Len(RendersOf(i)) >= 1
              /\ \A n \in 1..Len(RendersOf(i)) : RendersOf(i)[n][3] = cells
              /\ \E id \in MadeByConnect : subs[id].kind = "tpl" /\ subs[id].reg = i

\* C25 witness: a connected event after a disconnected one, with property
\* values that are not the initial ones, and a template whose first invocation
\* has them.
C25_Witness ==
  /\ turn.op = "connected"
  /\ turn.connected = "disconnected"
  /\ \A k \in KeySet : cells[k] # SeedValues[k]
  /\ \E i \in Registered :
       /\ registeredObservables[i].kind = "tpl"
       /\ RendersOf(i)[1] = <<"render", i, cells>>

(***************************************************************************)
(* Effects: property "b" has the attribute-writing effect of the tests or  *)
(* the formatting effect of the demo, property "a" has none; external      *)
(* subscribers come and go while the properties are assigned.              *)
(***************************************************************************)
InitEffects ==
  /\ \E effects \in {"reflect", "format"} :
       properties = [Properties EXCEPT !["b"] = [@ EXCEPT !.effects = effects]]
  /\ setters = SettersOf(properties)
  /\ hostPre = EmptyHost
  /\ node = ObjectDefineProperties(HostOf(hostPre), Keys)
  /\ attrs = NoAttributes
  /\ pc = "ready"
  /\ cells = createPropertiesDescriptors(hostPre, attrs, properties)
  /\ writer = NoWriter
  /\ InitLifecycle
  /\ turn = TurnOf("create", "", Undefined)

NextEffects ==
  \/ \E k \in KeySet, v \in WriteValues : SetProp(k, v)
  \/ \E s \in Spies : SpySubscribe(s)
  \/ \E s \in Spies : SpyUnsubscribe(s)

SpecEffects == InitEffects /\ [][NextEffects]_vars

\* The effect runs of the last turn for property k, over all subscriptions.
EffectsRun(k) == SelectSeq(log, LAMBDA e : e[1] = "effect" /\ e[3] = k)

\* The position in the log of the first entry equal to e, 0 when there is none.
IndexOf(e) ==
  IF \E n \in 1..Len(log) : log[n] = e
  THEN CHOOSE n \in 1..Len(log) : log[n] = e /\ \A m \in 1..(n - 1) : log[m] # e
  ELSE 0

\* C26: for a property whose definition has an effect pipeline, every change
\* event carries the value the effect passes on and is delivered after the
\* effect's side effect for that value (here: the attribute write) is done; an
\* assignment of the value the property already holds runs no effect and
\* produces no event; for a property without effects the event carries the
\* assigned value unchanged and nothing else happens.
C26_EffectsBeforeEvent ==
  turn.op = "set" =>
    LET k == turn.key
        v == turn.value
        changed == v # turn.cells[k]
    IN /\ ~changed => (EffectsRun(k) = <<>> /\ \A s \in Spies : EventsOf(s) = <<>>)
       /\ properties[k].effects = "" =>
            /\ EffectsRun(k) = <<>>
            /\ \A s \in turn.spies :
                 changed => EventsOf(s) = << <<"event", s, k, v>> >>
       /\ (properties[k].effects # "" /\ changed) =>
            /\ Len(EffectsRun(k)) = Cardinality(turn.spies)
            /\ turn.spies # {} =>
                 attrs[k] = Str(IF properties[k].effects = "format" THEN ToFixed(v)
                                ELSE ToText(v))
            /\ \A s \in turn.spies :
                 /\ EventsOf(s) =
                      << <<"event", s, k,
                           IF properties[k].effects = "format" THEN Str(ToFixed(v)) ELSE v>> >>
                 /\ IndexOf(<<"effect", SpyId(s), k, v>>) > 0
                 /\ IndexOf(<<"effect", SpyId(s), k, v>>) < IndexOf(EventsOf(s)[1])

\* C26 witness: property "b" has the formatting effect and is assigned 0 while
\* it holds 1, with both subscribers subscribed: each receives ("b", "0.00").
C26_Witness ==
  /\ turn.op = "set"
  /\ turn.key = "b"
  /\ properties["b"].effects = "format"
  /\ turn.cells["b"] = Num(1)
  /\ turn.value = Num(0)
  /\ turn.spies = Spies
  /\ \A s \in Spies : EventsOf(s) = << <<"event", s, "b", Str(<<"0", ".", "0", "0">>)>> >>
  /\ attrs["b"] = Str(<<"0", ".", "0", "0">>)

(***************************************************************************)
(* Objects as property values: property "a" is assigned objects, two of    *)
(* which are distinct objects with the same content.                       *)
(***************************************************************************)
ObjectValues == {Obj("o1", Num(0)), Obj("o2", Num(0)), Obj("o3", Num(1))}

\* Same content: what a structural comparison of two values looks at.
StructurallyEqual(x, y) ==
  IF x[1] = "obj" /\ y[1] = "obj" THEN x[3] = y[3] ELSE StrictEquals(x, y)

InitObjects ==
  /\ properties = [Properties EXCEPT !["a"] = prop(Obj("o1", Num(0)), NoConfig)]
  /\ setters = SettersOf(properties)
  /\ hostPre = EmptyHost
  /\ node = ObjectDefineProperties(HostOf(hostPre), Keys)
  /\ attrs = NoAttributes
  /\ pc = "ready"
  /\ cells = createPropertiesDescriptors(hostPre, attrs, properties)
  /\ writer = NoWriter
  /\ InitLifecycle
  /\ turn = TurnOf("create", "", Undefined)

NextObjects ==
  \/ \E v \in ObjectValues \cup {Null} : SetProp("a", v)
  \/ \E v \in WriteValues : SetProp("b", v)
  \/ \E s \in Spies : SpySubscribe(s)
  \/ \E s \in Spies : SpyUnsubscribe(s)

SpecObjects == InitObjects /\ [][NextObjects]_vars

ShadowRoot == <<"shadowRoot">>

OtherValues == WriteValues \cup {Str(<<"x">>)}

InitRender ==
  /\ properties = Properties
  /\ setters = SettersOf(properties)
  /\ hostPre = EmptyHost
  /\ \E v \in OtherValues, root \in {Null, ShadowRoot} :
       node = ObjectDefineProperties(
                [HostOf(hostPre) EXCEPT !.own = <<"others">>,
                                        !.others = [n \in OtherNames |-> v],
                                        !.shadowRoot = root],
                Keys)
  /\ attrs = NoAttributes
  /\ pc = "ready"
  /\ cells = createPropertiesDescriptors(hostPre, attrs, properties)
  /\ writer = NoWriter
  /\ InitLifecycle
  /\ turn = TurnOf("create", "", Undefined)

\* node.others = v: an assignment to an own property outside the schema.
SetOther(v) ==
  /\ pc = "ready"
  /\ node' = [node EXCEPT !.others["others"] = v]
  /\ log' = <<>>
  /\ turn' = TurnOf("setOther", "others", v)
  /\ UNCHANGED <<properties, setters, hostPre, pc, cells, attrs, registeredObservables,
                 subscriptions, observers, subs, writer, connected, firstCmp>>

NextRender ==
  \/ \E k \in KeySet, v \in WriteValues : SetProp(k, v)
  \/ \E v \in OtherValues : SetOther(v)
  \/ UseTemplate
  \/ Connected
  \/ Disconnected
  \/ Update

SpecRender == InitRender /\ [][NextRender]_vars

\* The template invocations of the last turn.
Renders == SelectSeq(log, LAMBDA e : e[1] = "render")

\* C28: every snapshot produced for a template maps exactly the schema's
\* property names to the values those properties have on the host when the
\* template is invoked; the host's own properties outside the schema never
\* appear, whatever their values.
C28_SnapshotIsSchema ==
  \A n \in 1..Len(Renders) :
    /\ DOMAIN Renders[n][3] = KeySet
    /\ \A k \in KeySet : Renders[n][3][k] = cells[k]
    /\ \A o \in OtherNames : o \notin DOMAIN Renders[n][3]

\* C28 witness: the host has an own property "others" with the value the
\* assigned property gets; the assignment invokes a template with a snapshot
\* of the schema properties.
C28_Witness ==
  /\ ChangingWrite
  /\ Contains(ObjectKeys(node), "others")
  /\ node.others["others"] = turn.value
  /\ Renders # <<>>
  /\ Renders[1][3] = [k \in KeySet |-> cells[k]]

\* C29: each invocation of a bound template is followed at once by exactly one
\* invocation of the injected renderer, with the template's result and with
\* the host's shadowRoot as render target if the host has one, else the host
\* itself; the renderer is invoked at no other time.
C29_RendererAfterTemplate ==
  \A n \in 1..Len(log) :
    /\ log[n][1] = "render" =>
         /\ n < Len(log)
         /\ log[n + 1][1] = "renderer"
         /\ log[n + 1][2] = log[n][2]
         /\ log[n + 1][3] = TemplateResult(log[n][2], log[n][3])
         /\ log[n + 1][4] = IF node.shadowRoot = Null THEN node.id ELSE node.shadowRoot
    /\ log[n][1] = "renderer" => (n > 1 /\ log[n - 1][1] = "render")

\* C29 witness: on a host with a shadowRoot, update() invokes the template and
\* then the renderer with the shadowRoot as target.
C29_Witness ==
  /\ turn.op = "update"
  /\ node.shadowRoot = ShadowRoot
  /\ Len(log) = 2
  /\ log[1][1] = "render"
  /\ log[2] = <<"renderer", log[1][2], TemplateResult(log[1][2], cells), ShadowRoot>>

(***************************************************************************)
(* The host object: create() installs the schema {a, b} on a host that may *)
(* own values under schema names, in either order, and may own a property  *)
(* outside the schema.                                                     *)
(***************************************************************************)
\* The sequences that hold every element of S once.
Orders(S) ==
  {s \in [1..Cardinality(S) -> S] : \A i, j \in 1..Cardinality(S) : s[i] = s[j] => i = j}

InitHost ==
  /\ properties = Properties
  /\ setters = NoSetters
  /\ hostPre \in InstallHosts
  /\ \E other \in {Missing, Num(1)} :
       \E own \in Orders({k \in KeySet : hostPre[k] # Missing}
                           \cup {o \in OtherNames : other # Missing}) :
         node = [HostOf(hostPre) EXCEPT !.own = own,
                                        !.others = [n \in OtherNames |-> other]]
  /\ attrs \in {as \in [AttrNames -> InstallAttributes] : as["b"] = Absent /\ as["foo"] = Absent}
  /\ pc = "new"
  /\ cells = [k \in KeySet |-> Undefined]
  /\ writer = NoWriter
  /\ InitLifecycle
  /\ turn = TurnOf("none", "", Undefined)

SpecHost == InitHost /\ [][NextInstall]_vars

\* The position of a key in Object.keys(properties).
SchemaIndex(k) == CHOOSE i \in 1..Len(Keys) : Keys[i] = k

\* The host owns no enumerable property outside the schema.
NoOtherProperties == \A o \in OtherNames : node.others[o] = Missing

\* C30 as stated: after install on a host with no other enumerable properties,
\* enumerating the host's own properties yields exactly the schema property
\* names in schema order, and `component` is the object that was passed in.
C30_SchemaOrder ==
  (pc = "ready" /\ NoOtherProperties) =>
    /\ ObjectKeys(node) = Keys
    /\ Component.id = turn.node.id

\* C30: install makes every schema property an own enumerable property of the
\* host, once; `component` is the object that was passed in, with its other
\* properties as they were.  Enumerating the host's own properties yields the
\* names it owned before, in their earlier order, and then the schema names it
\* did not own, in schema order: on a host with no other enumerable properties
\* that is the schema names, in schema order when the host owned none of them
\* before install.
C30_EnumerableInDefinitionOrder ==
  pc = "ready" =>
    LET before == turn.node.own
        after == ObjectKeys(node)
        added == SubSeq(after, Len(before) + 1, Len(after))
    IN /\ \A k \in KeySet : Cardinality({i \in 1..Len(after) : after[i] = k}) = 1
       /\ SubSeq(after, 1, Len(before)) = before
       /\ \A i \in 1..Len(added) : added[i] \in KeySet /\ ~Contains(before, added[i])
       /\ \A i, j \in 1..Len(added) :
            i < j => SchemaIndex(added[i]) < SchemaIndex(added[j])
       /\ NoOtherProperties => {after[i] : i \in 1..Len(after)} = KeySet
       /\ (NoOtherProperties /\ before = <<>>) => after = Keys
       /\ Component = node
       /\ Component.id = turn.node.id
       /\ Component.others = turn.node.others

\* C30 witness: install on a host that owned nothing: the own enumerable
\* properties are the schema names in schema order.
C30_Witness ==
  /\ pc = "ready"
  /\ turn.op = "create"
  /\ turn.node.own = <<>>
  /\ NoOtherProperties
  /\ ObjectKeys(node) = Keys

(***************************************************************************)
(* The lifecycle streams: external subscribers subscribe to connected$ and *)
(* disconnected$ and unsubscribe, templates are bound, the host is         *)
(* connected and disconnected.                                             *)
(***************************************************************************)
LifecycleStreams == {"connected$", "disconnected$"}

\* The stream external subscriber s is subscribed to, "" when to none.
StreamOf(s) ==
  IF \E id \in SubIds : subs[id].kind \in LifecycleStreams /\ subs[id].spy = s
  THEN subs[CHOOSE id \in SubIds : subs[id].kind \in LifecycleStreams /\ subs[id].spy = s].kind
  ELSE ""

\* connected$.subscribe(spy) / disconnected$.subscribe(spy): fromEvent adds a
\* listener to the host; nothing is delivered at subscription.
LifecycleSubscribe(stream, s) ==
  /\ pc = "ready"
  /\ StreamOf(s) = ""
  /\ ~SpySubscribed(s)
  /\ FreeIds(State) # {}
  /\ LET id == FreshId(State)
         st1 == [State EXCEPT !.subs[id] = NewSub(stream, 0, s),
                              !.observers[stream] = Append(@, id)]
     IN Commit(st1)
  /\ turn' = TurnOf("lifecycleSubscribe", stream, Undefined)
  /\ UNCHANGED <<node, properties, setters, hostPre, pc, registeredObservables, subscriptions,
                 writer, connected, firstCmp>>

\* sub.unsubscribe(): the listener is removed.
LifecycleUnsubscribe(s) ==
  /\ pc = "ready"
  /\ StreamOf(s) # ""
  /\ Commit(Unsubscribe(State,
                        CHOOSE id \in SubIds :
                          subs[id].kind \in LifecycleStreams /\ subs[id].spy = s))
  /\ turn' = TurnOf("lifecycleUnsubscribe", StreamOf(s), Undefined)
  /\ UNCHANGED <<node, properties, setters, hostPre, pc, registeredObservables, subscriptions,
                 writer, connected, firstCmp>>

NextLifecycle ==
  \/ \E stream \in LifecycleStreams, s \in Spies : LifecycleSubscribe(stream, s)
  \/ \E s \in Spies : LifecycleUnsubscribe(s)
  \/ UseTemplate
  \/ Connected
  \/ Disconnected
  \/ \E v \in WriteValues : SetProp("a", v)

SpecLifecycle == Init /\ [][NextLifecycle]_vars

\* The lifecycle signals subscriber s received in the last turn.
SignalsOf(s) == SelectSeq(log, LAMBDA e : e[1] = "signal" /\ e[3] = s)

\* C31: a subscriber of connected$ receives exactly one signal per connected
\* event fired on the host while it is subscribed and nothing at any other
\* time (not at subscription, not on a disconnected event, not on an
\* assignment); a subscriber of disconnected$ likewise for disconnected events.
C31_OneSignalPerEvent ==
  \A s \in Spies :
    SignalsOf(s) =
      IF turn.op = "connected" /\ StreamOf(s) = "connected$"
      THEN << <<"signal", "connected$", s>> >>
      ELSE IF turn.op = "disconnected" /\ StreamOf(s) = "disconnected$"
      THEN << <<"signal", "disconnected$", s>> >>
      ELSE <<>>

\* C31 witness: a connected event on a host that was connected before, with one
\* subscriber on each stream: only the subscriber of connected$ got a signal.
C31_Witness ==
  /\ turn.op = "connected"
  /\ turn.connected = "disconnected"
  /\ StreamOf("s1") = "connected$"
  /\ StreamOf("s2") = "disconnected$"
  /\ log # <<>>
  /\ SignalsOf("s1") = << <<"signal", "connected$", "s1">> >>
  /\ SignalsOf("s2") = <<>>

(***************************************************************************)
(* prop(): the embedder builds the definition of property "a" with prop()  *)
(* from a default and a configuration object, then create() installs the   *)
(* schema.  A configuration object is a function from the fields it has.   *)
(***************************************************************************)
propSpread_OnlyInitial(initial, config) == [f \in {"initial"} |-> initial]

\* return { initial, ...config }: the object with `initial` and then every
\* field of config, a field of config replacing one of the same name.
propSpread(initial, config) ==
  [f \in {"initial"} \cup DOMAIN config |-> IF f \in DOMAIN config THEN config[f] ELSE initial]

\* The PropertyConfig record of the model for a definition object: a field the
\* object does not have reads as not given.
ConfigOf(object) ==
  [f \in DOMAIN NoConfig |-> IF f \in DOMAIN object THEN object[f] ELSE NoConfig[f]]

\* The configuration object with the given fields; "" and Missing stand for a
\* field the object does not have.
ConfigObject(attributeName, converter, effects, initial) ==
  [f \in {g \in DOMAIN NoConfig :
            \/ g = "attributeName" /\ attributeName # ""
            \/ g = "converter" /\ converter # ""
            \/ g = "effects" /\ effects # ""
            \/ g = "initial" /\ initial # Missing} |->
     CASE f = "attributeName" -> attributeName
       [] f = "converter" -> converter
       [] f = "effects" -> effects
       [] OTHER -> initial]

\* The configuration objects drawn: any subset of the fields.  Omit<PropertyConfig,
\* 'initial'> is the declared type; an object that also has `initial` is
\* accepted when it is not written as a literal.
ConfigObjects ==
  {ConfigObject(attributeName, converter, effects, initial) :
     attributeName \in {"", "foo"}, converter \in {"", "JSON", "Number", "Boolean"},
     effects \in {"", "reflect"}, initial \in {Missing, Num(1)}}

InitProp ==
  /\ properties = Properties
  /\ setters = NoSetters
  /\ hostPre = EmptyHost
  /\ node = HostOf(hostPre)
  /\ attrs = NoAttributes
  /\ pc = "new"
  /\ cells = [k \in KeySet |-> Undefined]
  /\ writer = NoWriter
  /\ InitLifecycle
  /\ turn = TurnOf("none", "", Undefined)

\* const props = { a: prop(initial, config), ... }
BuildSchema(initial, config) ==
  /\ pc = "new"
  /\ turn.op = "none"
  /\ properties' = [properties EXCEPT !["a"] = ConfigOf(propSpread(initial, config))]
  /\ log' = << <<"prop", initial, config, propSpread(initial, config)>> >>
  /\ turn' = TurnOf("prop", "a", initial)
  /\ UNCHANGED <<node, setters, hostPre, pc, cells, attrs, registeredObservables, subscriptions,
                 observers, subs, writer, connected, firstCmp>>

NextProp ==
  \/ \E initial \in DecodeInitials, config \in ConfigObjects : BuildSchema(initial, config)
  \/ Install

SpecProp == InitProp /\ [][NextProp]_vars

\* C32: prop(initial, config), for a config of the declared type (no `initial`
\* of its own), returns a definition that holds exactly the fields of config,
\* with their values, plus `initial` set to the first argument; with no config
\* (the empty object) it holds only `initial`.  For any config the fields are
\* those of config plus `initial`.
C32_PropHoldsConfigPlusInitial ==
  \A n \in 1..Len(log) :
    log[n][1] = "prop" =>
      LET initial == log[n][2]
          config == log[n][3]
          result == log[n][4]
      IN /\ DOMAIN result = DOMAIN config \cup {"initial"}
         /\ \A f \in DOMAIN config : result[f] = config[f]
         /\ "initial" \notin DOMAIN config => result["initial"] = initial
         /\ DOMAIN config = {} => (DOMAIN result = {"initial"} /\ result["initial"] = initial)
         /\ "initial" \notin DOMAIN config =>
              properties["a"] = prop(initial, ConfigOf(config))

\* C32 witness: prop(0, {attributeName: 'foo'}) holds attributeName 'foo' and
\* initial 0, and nothing else.
C32_Witness ==
  /\ turn.op = "prop"
  /\ log[1][2] = Num(0)
  /\ DOMAIN log[1][3] = {"attributeName"}
  /\ DOMAIN log[1][4] = {"attributeName", "initial"}
  /\ log[1][4]["initial"] = Num(0)
  /\ log[1][4]["attributeName"] = "foo"

(***************************************************************************)
(* C33, C34: repeated connected events and the replay at a connected event,*)
(* under Spec.                                                             *)
(***************************************************************************)
\* C33: every connected event subscribes every registered pipeline once more,
\* whether or not a disconnected event came between: a pipeline registered
\* before two connected events with no disconnected event between them has two
\* subscriptions, observes each later emission of its source twice (a bound
\* template is invoked twice per change), until the next disconnected event,
\* which unsubscribes all of them.
C33_SubscribedOncePerConnect ==
  \A i \in Registered :
    /\ Cardinality(SubscriptionsOf(i)) = registeredObservables[i].due
    /\ (turn.op = "emit" /\ registeredObservables[i].kind = "ext") =>
         Len(SpyCalls(i)) = registeredObservables[i].due
    /\ (ChangingWrite /\ registeredObservables[i].kind = "tpl") =>
         Len(RendersOf(i)) = registeredObservables[i].due
    /\ turn.op = "disconnected" =>
         /\ SubscriptionsOf(i) = {}
         /\ subscriptions = <<>>
         /\ \A id \in SubIds : subs[id].kind \notin {"ext", "tpl"}

\* C33 witness: the source emits after two connected events with no
\* disconnected event between them; the registered pipeline observes the
\* emission twice.
C33_Witness ==
  /\ turn.op = "emit"
  /\ \E i \in Registered :
       /\ registeredObservables[i].kind = "ext"
       /\ registeredObservables[i].due = 2
       /\ Cardinality(SubscriptionsOf(i)) = 2
       /\ Len(SpyCalls(i)) = 2

\* Both properties have the attribute-writing effect, which makes the order of
\* the replays visible in the delivery log.
InitReplay ==
  /\ properties = [k \in KeySet |-> [Properties[k] EXCEPT !.effects = "reflect"]]
  /\ setters = SettersOf(properties)
  /\ hostPre = EmptyHost
  /\ node = ObjectDefineProperties(HostOf(hostPre), Keys)
  /\ attrs = NoAttributes
  /\ pc = "ready"
  /\ cells = createPropertiesDescriptors(hostPre, attrs, properties)
  /\ writer = NoWriter
  /\ InitLifecycle
  /\ turn = TurnOf("create", "", Undefined)

NextReplay ==
  \/ \E k \in KeySet, v \in WriteValues : SetProp(k, v)
  \/ UseTemplate
  \/ Connected
  \/ Disconnected

SpecReplay == InitReplay /\ [][NextReplay]_vars

\* The effect runs of the last turn in subscription id: the properties whose
\* value it was delivered, in delivery order.
DeliveredTo(id) == SelectSeq(log, LAMBDA e : e[1] = "effect" /\ e[2] = id)

\* C34: on each connected event every bound template is invoked once per
\* schema property, each time with the same full snapshot of the current
\* property values (the values before the event, none is written by it): each
\* cell replays its current value to the new subscription, in schema order.
C34_ReplayPerProperty ==
  turn.op = "connected" =>
    /\ \A i \in 1..turn.registered :
         registeredObservables[i].kind = "tpl" =>
           /\ Len(RendersOf(i)) = Len(Keys)
           /\ \A n \in 1..Len(RendersOf(i)) :
                RendersOf(i)[n][3] = [k \in KeySet |-> turn.cells[k]]
    /\ \A id \in MadeByConnect :
         DeliveredTo(id) = [n \in 1..Len(Keys) |-> <<"effect", id, Keys[n], turn.cells[Keys[n]]>>]

\* C34 witness: a connected event with a template bound and property values
\* that are not the initial ones: the template was invoked once per property.
C34_Witness ==
  /\ turn.op = "connected"
  /\ turn.registered >= 1
  /\ \A k \in KeySet : cells[k] # SeedValues[k]
  /\ Len(RendersOf(1)) = Len(Keys)
  /\ RendersOf(1)[1] = RendersOf(1)[Len(Keys)]

\* The subscriptions to the change stream of property k that are active: those
\* of external subscribers and those of bound templates.
ChangeSubscriptions(k) ==
  {id \in SubIds : subs[id].kind \in {"spy", "tpl"} /\ Contains(observers[k], id)}

\* C35: for one value-changing assignment of a property with an effect, the
\* effect's side effect runs once per subscription to the change stream active
\* at the time of the assignment (one per live subscription of a bound template
\* and one per external subscriber), and not at all when nothing is subscribed;
\* an assignment that changes nothing runs it in no subscription.
C35_EffectPerSubscription ==
  (turn.op = "set" /\ properties[turn.key].effects # "") =>
    /\ Len(EffectsRun(turn.key)) =
         IF ChangingWrite THEN Cardinality(ChangeSubscriptions(turn.key)) ELSE 0
    /\ \A id \in ChangeSubscriptions(turn.key) :
         ChangingWrite =>
           Len(SelectSeq(EffectsRun(turn.key), LAMBDA e : e[2] = id)) = 1
    /\ (ChangingWrite /\ turn.connected # "connected" /\ turn.spies = {}) =>
         EffectsRun(turn.key) = <<>>

\* C35 witness: a value-changing assignment of the property with the effect
\* while a template subscription and an external subscriber are active: the
\* effect ran twice.
C35_Witness ==
  /\ ChangingWrite
  /\ turn.key = "b"
  /\ turn.spies # {}
  /\ \E id \in ChangeSubscriptions("b") : subs[id].kind = "tpl"
  /\ Cardinality(ChangeSubscriptions("b")) = 2
  /\ Len(EffectsRun("b")) = 2


(***************************************************************************)
(* A host that reports its attribute writes synchronously, with a property *)
(* whose effect reflects each value to the property's attribute.           *)
(***************************************************************************)
\* The values the embedder assigns: numbers, strings (the empty one, one that
\* reads as a number, one that does not, one with a backslash), a boolean, NaN,
\* an object, null and undefined.
SyncValues ==
  WriteValues \cup {Str(<<>>), Str(<<"1">>), Str(<<"x">>), Str(<<Backslash>>),
                    Bool(TRUE), NaN, Obj("o1", Num(0)), Null, Undefined}

InitSync ==
  /\ properties = [Properties EXCEPT !["a"] = [@ EXCEPT !.effects = "reflect"]]
  /\ setters = SettersOf(properties)
  /\ hostPre = EmptyHost
  /\ node = [ObjectDefineProperties(HostOf(hostPre), Keys) EXCEPT !.reports = TRUE]
  /\ attrs = NoAttributes
  /\ pc = "ready"
  /\ cells = createPropertiesDescriptors(hostPre, attrs, properties)
  /\ writer = NoWriter
  /\ InitLifecycle
  /\ turn = TurnOf("create", "", Undefined)

NextSync ==
  \/ \E v \in SyncValues : SetProp("a", v)
  \/ \E s \in Spies : SpySubscribe(s)
  \/ \E s \in Spies : SpyUnsubscribe(s)

SpecSync == InitSync /\ [][NextSync]_vars

\* The attribute-change signals the host reported in the last turn.
SignalsReported == SelectSeq(log, LAMBDA e : e[1] = "attributeChanged")

\* The last turn was cut off before its signals ran out.
CutOff == \E n \in 1..Len(log) : log[n][1] = "cutoff"

ErrorsRaised == SelectSeq(log, LAMBDA e : e[1] = "error")

FailingConverters == {"", "NoParse"}

FailingAttributes == {Absent, Str(<<"x">>), Str(<<Backslash>>)}

InitSeedFails ==
  /\ \E ca \in FailingConverters, cb \in FailingConverters :
       properties =
         [Properties EXCEPT !["a"] = prop(Num(0), [NoConfig EXCEPT !.converter = ca]),
                            !["b"] = prop(Num(1), [NoConfig EXCEPT !.converter = cb])]
  /\ setters = NoSetters
  /\ hostPre \in InstallHosts
  /\ node = HostOf(hostPre)
  /\ attrs \in {as \in [AttrNames -> FailingAttributes] :
                  \A n \in AttrNames \ KeySet : as[n] = Absent}
  /\ pc = "new"
  /\ cells = [k \in KeySet |-> Undefined]
  /\ writer = NoWriter
  /\ InitLifecycle
  /\ turn = TurnOf("none", "", Undefined)

SpecSeedFails == InitSeedFails /\ [][NextInstall]_vars

\* The seed of schema key k throws on the host create() was given.
SeedThrows(k) == SeedOf(hostPre, attrs, k, properties[k]) = Thrown

\* C37: when the seed of any schema property throws, create() throws, the host
\* has the own properties it had before (no accessor was defined, not even for
\* the keys before the failing one), and no table of setters exists.
C37_InstallAllOrNothing ==
  (turn.op = "create" /\ \E k \in KeySet : SeedThrows(k)) =>
    /\ pc = "failed"
    /\ node = turn.node
    /\ ObjectKeys(node) = SelectSeq(Keys, LAMBDA k : hostPre[k] # Missing)
    /\ setters = NoSetters
    /\ cells = turn.cells

C37_Witness ==
  /\ turn.op = "create" /\ pc = "failed"
  /\ ~SeedThrows("a") /\ SeedThrows("b")
  /\ hostPre["a"] = Missing
  /\ ObjectKeys(node) = <<>>


\* C38: when the bound attribute is present with the empty text and the
\* resolved converter is not Boolean, decode returns the declared default and
\* does not invoke the converter (a converter that throws when invoked does not
\* throw, Number does not give 0, String and JSON do not give "", URL does not
\* give the base address, Date does not give an invalid date).
C38_EmptyGivesDefault ==
  (pc # "new" /\ BoundText = Str(<<>>) /\ ResolveConverter(properties["a"]) # "Boolean") =>
    /\ pc = "ready"
    /\ cells["a"] = properties["a"].initial

\* C38 witness: the bound attribute is the empty text, the converter is one that
\* throws when invoked, and the default, not the empty text, is installed.
C38_Witness ==
  /\ pc = "ready"
  /\ BoundText = Str(<<>>)
  /\ properties["a"].converter = "NoParse"
  /\ properties["a"].initial = Str(<<"x">>)
  /\ cells["a"] = Str(<<"x">>)


\* The templates of the renders of the last turn, in the order of the renders.
RenderOrder == [n \in 1..Len(Renders) |-> Renders[n][2]]

\* The registered pipelines of the recorded subscriptions, in the order the
\* subscriptions were made; TemplateOrder keeps the templates among them.
SubscriptionOrder == [n \in 1..Len(subscriptions) |-> subs[subscriptions[n]].reg]

TemplateOrder ==
  LET tpls == SelectSeq(subscriptions, LAMBDA id : subs[id].kind = "tpl")
  IN [n \in 1..Len(tpls) |-> subs[tpls[n]].reg]

\* The place of the first render of template i in the last turn, 0 if none.
FirstRender(i) ==
  IF \E n \in 1..Len(RenderOrder) : RenderOrder[n] = i
  THEN CHOOSE n \in 1..Len(RenderOrder) :
         RenderOrder[n] = i /\ \A m \in 1..(n - 1) : RenderOrder[m] # i
  ELSE 0

\* C39: a connected event subscribes the registered pipelines in registration
\* order, each template rendering as it is subscribed; a value-changing
\* assignment is rendered by the subscribed templates in the order their
\* subscriptions were made, so that of two templates rendering a change the one
\* bound earlier renders first.
C39_RegistrationOrder ==
  /\ turn.op = "connected" =>
       /\ SubSeq(SubscriptionOrder, Len(turn.subscriptions) + 1, Len(subscriptions)) =
            [n \in 1..Len(registeredObservables) |-> n]
       /\ \A n \in 1..(Len(RenderOrder) - 1) : RenderOrder[n] <= RenderOrder[n + 1]
  /\ ChangingWrite =>
       /\ RenderOrder = TemplateOrder
       /\ \A i \in Registered, j \in Registered :
            (i < j /\ FirstRender(i) > 0 /\ FirstRender(j) > 0) => FirstRender(i) < FirstRender(j)

\* C39 witness: two templates are subscribed and an assignment changes a
\* value; the first template renders, then the second.
C39_Witness ==
  /\ ChangingWrite
  /\ Len(registeredObservables) = 2
  /\ RenderOrder = <<1, 2>>


(***************************************************************************)
(* The list of registered pipelines: subscribe() with any number of        *)
(* pipelines of the embedder, among the events of the host.                *)
(***************************************************************************)
\* The embedder's pipelines, both over the embedder's Subject.
Pipelines == {"ext", "other"}

\* The argument lists of subscribe(): none, one or two pipelines.
ArgumentLists ==
  {<<>>} \cup {<<p>> : p \in Pipelines} \cup {<<p, q>> : p \in Pipelines, q \in Pipelines}

ArrayPush_Unshift(list, items) ==
  [list |-> items \o list, returned |-> Len(list) + Len(items)]

\* Array.prototype.push(...items): the items are added at the end in argument
\* order; the new length is returned.
ArrayPush(list, items) ==
  [list |-> list \o items, returned |-> Len(list) + Len(items)]

\* subscribe(...observables) => registeredObservables.push(...observables)
SubscribeAll(args) ==
  /\ pc = "ready"
  /\ Len(registeredObservables) + Len(args) <= MaxReg
  /\ LET pushed == ArrayPush(registeredObservables,
                             [n \in 1..Len(args) |->
                                [kind |-> args[n], due |-> 0, early |-> connected = "never"]])
     IN /\ registeredObservables' = pushed.list
        /\ turn' = TurnOf("subscribe", "", [args |-> args, returned |-> pushed.returned])
  /\ log' = <<>>
  /\ UNCHANGED <<node, properties, setters, hostPre, pc, cells, attrs, subscriptions, observers, subs,
                 writer, connected, firstCmp>>

NextRegistry ==
  \/ \E args \in ArgumentLists : SubscribeAll(args)
  \/ UseTemplate
  \/ Connected
  \/ Disconnected
  \/ \E v \in WriteValues : SetProp("a", v)
  \/ \E v \in {Absent, Str(<<"1">>)} : AttributeChanged("a", v)

SpecRegistry == Init /\ [][NextRegistry]_vars

\* The registered pipelines, in list order.
PipelinesOf(list) == [n \in 1..Len(list) |-> list[n].kind]

\* C40: the list of registered pipelines only grows.  subscribe() appends its
\* arguments in order and returns the new length of the list; useTemplate()
\* appends one pipeline; a connected or disconnected event, an assignment and
\* an attribute signal leave the list as it is; a disconnected event before
\* any connected event changes no value, subscription or observer.
C40_RegistryOnlyGrows ==
  [][/\ Len(registeredObservables') >= Len(registeredObservables)
     /\ SubSeq(PipelinesOf(registeredObservables'), 1, Len(registeredObservables)) =
          PipelinesOf(registeredObservables)
     /\ turn'.op = "subscribe" =>
          /\ PipelinesOf(registeredObservables') =
               PipelinesOf(registeredObservables) \o turn'.value.args
          /\ turn'.value.returned = Len(registeredObservables')
     /\ turn'.op = "useTemplate" =>
          PipelinesOf(registeredObservables') = Append(PipelinesOf(registeredObservables), "tpl")
     /\ turn'.op \in {"connected", "disconnected", "set", "attributeChanged"} =>
          PipelinesOf(registeredObservables') = PipelinesOf(registeredObservables)
     /\ (turn'.op = "disconnected" /\ connected = "never") =>
          /\ connected' = "never"
          /\ UNCHANGED <<cells, attrs, subscriptions, observers, subs, registeredObservables,
                         node, setters>>
    ]_vars

\* C40 witness: subscribe() registered two different pipelines, which were
\* subscribed by a connected event and unsubscribed by a disconnected event:
\* the list still holds the two pipelines in argument order.
C40_Witness ==
  /\ PipelinesOf(registeredObservables) = <<"ext", "other">>
  /\ turn.op = "disconnected"
  /\ turn.connected = "connected"
  /\ subscriptions = <<>>

====
